---------------------------- MODULE Spec2Model ----------------------------
(***************************************************************************)
(* A model of xlsx-analytics: the workbook ingestion pipeline              *)
(* (processExcelFile), the SQL guard, the two query entry points and the   *)
(* SQL generator's retry loop.                                             *)
(*                                                                         *)
(* Text is modelled as sequences of one-character strings, so that trim,   *)
(* toLowerCase, startsWith and slugify are computed character by           *)
(* character as the code computes them.                                    *)
(***************************************************************************)
EXTENDS Integers, Sequences, FiniteSets, TLC

VARIABLES
    \* ---- processExcelFile (one ingestion run) ----
    wb,              \* the parsed workbook: sheets in workbook order
    db0,             \* content of the database file when the run started
    db,              \* tables of the database file: name -> [rows, fresh]
    expectedTables,  \* const expectedTables (database.ts:160)
    ipc,             \* position of the run in processExcelFile
    idx,             \* index of the sheet the for-loop is at
    inserted,        \* insertedRows of the current sheet
    tableCount,      \* tableCount read by the verification, -1 before it
    handles,         \* database instances/connections currently open
    flushFailed,     \* flush steps whose call raised (caught and logged)
    ilog,            \* the database and file operations issued so far
    metaWritten,     \* the metadata document has been written
    iresult,         \* "none" | "success" | "error"
    sheetsProcessed, \* sheetsProcessed of the returned result, -1 if none
    \* ---- SQL guard, applied to one statement ----
    gquery,          \* the statement handed to the guards
    gchat,           \* verdict of validateSqlQuery: "none"|"accept"|"reject"
    gdirect,         \* verdict of the direct entry point's guard
    \* ---- one query request, or one call of generateSqlQuery ----
    qentry,          \* "direct" | "chat" | "generate" (generateSqlQuery alone)
    hasEngine,       \* a dbManager is passed to generateSqlQuery
    fileRecord,      \* "missing", or the status of the FileRecord
    fetched,         \* the storage objects the request asked to download
    stmt,            \* the statement of the request (direct: from the body)
    qpc,             \* position of the request handler
    gpc,             \* position inside generateSqlQuery
    attempt,         \* loop variable of generateSqlQuery
    lastQuery,       \* lastQuery, <<>> while null
    lastError,       \* kind of lastError: "none" | "exec" | "llm"
    llmCalls,        \* calls of generateObject so far
    llmFailures,     \* calls of generateObject that raised
    samplesTaken,    \* getTableSamples has run
    trialOk,         \* a trial execution succeeded
    genOutcome,      \* "none" | "returned" | "raised"
    genError,        \* kind of the error generateSqlQuery raised
    prompts,         \* the prompts handed to generateObject, in order
    generated,       \* per attempt: the statement obtained and how it failed
    tableSamples,    \* tableSamples: table name -> rows captured
    lastErrorAt,     \* attempt whose failure lastError holds, -1 if none
    executed,        \* statements run on the attached database, in order
    guardRejected,   \* the guard of the entry point rejected the statement
    status,          \* HTTP status of the response, 0 while there is none
    \* ---- one stream made by createResponseStream ----
    textStream,      \* the narration tokens the collaborator yields
    streamRaises,    \* the collaborator's stream raises after those tokens
    chunks,          \* the chunks enqueued on the controller, in order
    yielded,         \* tokens taken from textStream so far
    spc,             \* position inside the start callback
    streamEnd,       \* "open" | "closed" | "errored"
    \* ---- operations that download temporary local files ----
    ops,             \* per operation: kind, workbook, position, local paths
    disk,            \* temporary files on disk: path -> operation that wrote it
    downloaded,      \* per operation: the temporary paths it wrote
    unlinked,        \* per operation: the paths it handed to cleanupTempFiles
    now,             \* Date.now(), in milliseconds
    foreign,         \* reads and deletions that hit another operation's file
    \* ---- the FileRecord and the storage folder of one workbook ----
    rec,             \* status of the FileRecord row, "missing" without a row
    storage,         \* objects under the workbook's per-hash folder
    upc,             \* position of uploadFileAction
    dpc,             \* position of the delete request
    ingestOk,        \* processExcelFile returned a result
    dbUpload,        \* dbUploadResult: "none" | "success" | "failure"
    metaUpload,      \* metadataUploadResult: "none" | "success" | "failure"
    recordInserted,  \* the upload action inserted the FileRecord
    uresult,         \* result of the upload action: "none"|"success"|"failure"
    dstatus,         \* HTTP status of the delete response, 0 while none
    fileList,        \* fileList of the delete request, NullList after an error
    deletes,         \* delete requests made so far
    statusLog,       \* every status written to the FileRecord, in order
    \* ---- validateDatabase (one validation of a stored database) ----
    expectedSchema,  \* the ValidationSchema argument (validator.ts:5-9)
    actualDb,        \* the stored database: table -> (column -> data type)
    vpc,             \* position of the call in validateDatabase
    tableIdx,        \* index of the loop over expectedTables (validator.ts:121)
    result,          \* const result: ValidationResult (validator.ts:51-60)
    \* ---- the columns of one sheet; sanitizeColumnName on one header ----
    originalCols,    \* Object.keys(rows[0]) (database.ts:192)
    nrows,           \* rows.length of the sheet
    colMapping,      \* const colMapping: sanitized name -> header
    cols,            \* Object.keys(colMapping) (database.ts:202)
    tableCols,       \* columns of the created table: name and type, in order
    tableRows,       \* rows of the created table, in insertion order
    cpc,             \* position in the sheet's turn of the loop
    header,          \* the argument of sanitizeColumnName
    sanitized,       \* sanitizeColumnName(header)
    again,           \* a second call on the same header
    resanitized,     \* sanitizeColumnName(sanitized)
    hpc,             \* position of the calls on the header
    \* ---- the cleanup at the end of one request ----
    ckind,           \* which request: chat, direct query or upload
    primary,         \* how the body of the request ended before its cleanup
    failing,         \* the cleanup calls that raise in this request
    hasConnection,   \* a connection was opened before the body ended
    hasPath,         \* a temporary file path was set before the body ended
    kpc,             \* position in the cleanup
    cleanupRaised,   \* cleanupTempFiles or DatabaseManager.cleanup raised
    response         \* what the request answered

ingestVars == <<wb, db0, db, expectedTables, ipc, idx, inserted, tableCount,
                handles, flushFailed, ilog, metaWritten, iresult,
                sheetsProcessed>>
guardVars == <<gquery, gchat, gdirect>>
requestVars == <<qentry, hasEngine, fileRecord, fetched>>
genVars == <<gpc, attempt, lastQuery, lastError, llmCalls, llmFailures,
             samplesTaken, trialOk, genOutcome, genError, prompts, generated,
             tableSamples, lastErrorAt>>
queryVars == <<requestVars, genVars, stmt, qpc, executed, guardRejected, status>>
streamVars == <<textStream, streamRaises, chunks, yielded, spc, streamEnd>>
fileVars == <<ops, disk, downloaded, unlinked, now, foreign>>
recordVars == <<rec, storage, upc, dpc, ingestOk, dbUpload, metaUpload,
                recordInserted, uresult, dstatus, fileList, deletes, statusLog>>
validateVars == <<expectedSchema, actualDb, vpc, tableIdx, result>>
columnVars == <<originalCols, nrows, colMapping, cols, tableCols, tableRows,
                cpc, header, sanitized, again, resanitized, hpc>>
cleanupVars == <<ckind, primary, failing, hasConnection, hasPath, kpc,
                 cleanupRaised, response>>
vars == <<ingestVars, guardVars, queryVars, streamVars, fileVars,
         recordVars, validateVars, columnVars, cleanupVars>>

\* what an ingestion step leaves alone
notIngest == <<guardVars, queryVars, streamVars, fileVars,
                recordVars, validateVars, columnVars, cleanupVars>>
\* what a guard call leaves alone
notGuard == <<ingestVars, queryVars, streamVars, fileVars,
               recordVars, validateVars, columnVars, cleanupVars>>
\* what a query request leaves alone
notQuery == <<ingestVars, guardVars, streamVars, fileVars,
               recordVars, validateVars, columnVars, cleanupVars>>
\* what a response stream leaves alone
notStream == <<ingestVars, guardVars, queryVars, fileVars,
                recordVars, validateVars, columnVars, cleanupVars>>
\* what an operation on temporary files leaves alone
notFiles == <<ingestVars, guardVars, queryVars, streamVars,
               recordVars, validateVars, columnVars, cleanupVars>>
\* what an upload or delete of the workbook leaves alone
notRecord == <<ingestVars, guardVars, queryVars, streamVars,
                fileVars, validateVars, columnVars, cleanupVars>>
\* what a validation of the database leaves alone
notValidate == <<ingestVars, guardVars, queryVars, streamVars,
                  fileVars, recordVars, columnVars, cleanupVars>>
\* what the work on the columns of a sheet leaves alone
notColumns == <<ingestVars, guardVars, queryVars, streamVars,
                 fileVars, recordVars, validateVars, cleanupVars>>
\* what the cleanup of a request leaves alone
notCleanup == <<ingestVars, guardVars, queryVars, streamVars,
                 fileVars, recordVars, validateVars, columnVars>>

-----------------------------------------------------------------------------
(* Bounds of the model *)

MaxSheets == 2      \* sheets per workbook
MaxRows == 2        \* data rows per sheet
MaxPad == 1         \* whitespace characters put before a statement
MaxTokens == 3      \* narration tokens the collaborator yields
MaxClock == 1       \* milliseconds the clock advances during the operations
MaxDeletes == 2     \* delete requests made for the workbook
MaxHeaderLen == 3   \* characters of a header handed to sanitizeColumnName
MaxCols == 2        \* headers of a sheet

-----------------------------------------------------------------------------
(* Characters and strings *)

LowerSeq == <<"a","b","c","d","e","f","g","h","i","j","k","l","m",
              "n","o","p","q","r","s","t","u","v","w","x","y","z">>
UpperSeq == <<"A","B","C","D","E","F","G","H","I","J","K","L","M",
              "N","O","P","Q","R","S","T","U","V","W","X","Y","Z">>
Letters == {LowerSeq[k] : k \in DOMAIN LowerSeq} \cup {UpperSeq[k] : k \in DOMAIN UpperSeq}
DigitChars == {"0","1","2","3","4","5","6","7","8","9"}
\* what String.prototype.trim and the regexp class \s treat as white space
WhiteSpace == {" ", "\t", "\n", "\r"}

toLowerCaseChar(c) ==
    IF \E k \in DOMAIN UpperSeq : UpperSeq[k] = c
    THEN LowerSeq[CHOOSE k \in DOMAIN UpperSeq : UpperSeq[k] = c]
    ELSE c

toLowerCase(s) == [k \in 1..Len(s) |-> toLowerCaseChar(s[k])]

toUpperCaseChar(c) ==
    IF \E k \in DOMAIN LowerSeq : LowerSeq[k] = c
    THEN UpperSeq[CHOOSE k \in DOMAIN LowerSeq : LowerSeq[k] = c]
    ELSE c

RECURSIVE trimStart(_)
trimStart(s) ==
    IF s # <<>> /\ Head(s) \in WhiteSpace THEN trimStart(Tail(s)) ELSE s

RECURSIVE trimEnd(_)
trimEnd(s) ==
    IF s # <<>> /\ s[Len(s)] \in WhiteSpace
    THEN trimEnd(SubSeq(s, 1, Len(s) - 1))
    ELSE s

trim(s) == trimEnd(trimStart(s))

startsWith(s, p) == Len(p) <= Len(s) /\ SubSeq(s, 1, Len(p)) = p

-----------------------------------------------------------------------------
(* slugify(name, {lower: true, strict: true, replacement: '_'}) *)

\* the library's charMap, for the symbols of the model's alphabet
charMap(c) ==
    CASE c = "$" -> <<"d","o","l","l","a","r">>
      [] c = "%" -> <<"p","e","r","c","e","n","t">>
      [] c = "&" -> <<"a","n","d">>
      [] OTHER -> <<c>>

\* characters that survive the library's default remove pattern
SlugKept == Letters \cup DigitChars \cup WhiteSpace \cup
            {"_", "$", "*", "+", "~", ".", "(", ")", "'", "!", "-", ":", "@"}

slugChar(c) ==
    LET mapped == IF charMap(c) = <<"_">> THEN <<" ">> ELSE charMap(c)
    IN  SelectSeq(mapped, LAMBDA x : x \in SlugKept)

RECURSIVE slugMap(_)
slugMap(s) == IF s = <<>> THEN <<>> ELSE slugChar(Head(s)) \o slugMap(Tail(s))

slugStrict(s) == SelectSeq(s, LAMBDA x : x \in Letters \cup DigitChars \cup WhiteSpace)

RECURSIVE slugJoin(_)
slugJoin(s) ==
    IF s = <<>> THEN <<>>
    ELSE IF Head(s) \in WhiteSpace THEN <<"_">> \o slugJoin(trimStart(s))
    ELSE <<Head(s)>> \o slugJoin(Tail(s))

slugify(s) == toLowerCase(slugJoin(trim(slugStrict(slugMap(s)))))

createTableName(sheetName) == <<"s","h","e","e","t","_">> \o slugify(sheetName)

-----------------------------------------------------------------------------
(* Workbooks and database files *)

\* sheet names of the model: "a" and "a!" derive the same table name
SheetNames == { <<"a">>, <<"a","!">>, <<"B"," ","1">>, <<"c","_","d">> }

Sheets == [name : SheetNames, rows : 0..MaxRows]

\* a workbook holds each sheet name once
Workbooks ==
    { w \in UNION { [1..n -> Sheets] : n \in 1..MaxSheets } :
        \A i, j \in DOMAIN w : i # j => w[i].name # w[j].name }

\* tables a prior run at the same path may have left behind
StaleTables == { createTableName(<<"a">>), createTableName(<<"o","l","d">>) }

StaleDatabases ==
    { [t \in S |-> [rows |-> 1, fresh |-> FALSE]] : S \in SUBSET StaleTables }

Range(f) == { f[x] : x \in DOMAIN f }

expectedTableNames == { createTableName(wb[i].name) : i \in DOMAIN wb }

NonEmptySheets == { i \in DOMAIN wb : wb[i].rows > 0 }

tbl == createTableName(wb[idx].name)

DropTable(d, t) == [x \in (DOMAIN d) \ {t} |-> d[x]]

Logged(e) == ilog' = Append(ilog, e)


-----------------------------------------------------------------------------
(* The SQL guard is idle while an ingestion run is modelled *)

GuardIdle == gquery = <<>> /\ gchat = "none" /\ gdirect = "none"

\* no ingestion run
IngestIdle ==
    /\ wb = <<>> /\ db0 = <<>> /\ db = <<>> /\ expectedTables = 0
    /\ ipc = "idle" /\ idx = 1 /\ inserted = 0 /\ tableCount = -1
    /\ handles = {} /\ flushFailed = {} /\ ilog = <<>>
    /\ metaWritten = FALSE /\ iresult = "none" /\ sheetsProcessed = -1

\* no query request
QueryIdle ==
    /\ qentry = "none" /\ hasEngine = FALSE /\ fileRecord = "missing"
    /\ fetched = {}
    /\ stmt = <<>> /\ qpc = "idle" /\ gpc = "idle" /\ attempt = 0
    /\ lastQuery = <<>> /\ lastError = "none" /\ llmCalls = 0
    /\ llmFailures = 0 /\ samplesTaken = FALSE /\ trialOk = FALSE
    /\ genOutcome = "none" /\ genError = "none" /\ executed = <<>>
    /\ guardRejected = FALSE /\ status = 0
    /\ prompts = <<>> /\ generated = <<>> /\ tableSamples = <<>>
    /\ lastErrorAt = -1

\* no response stream
StreamIdle ==
    /\ textStream = <<>> /\ streamRaises = FALSE /\ chunks = <<>>
    /\ yielded = 0 /\ spc = "idle" /\ streamEnd = "open"

\* no operation on temporary files
FilesIdle ==
    /\ ops = <<>> /\ disk = <<>> /\ downloaded = <<>> /\ unlinked = <<>>
    /\ now = 0 /\ foreign = {}

\* no upload and no delete
RecordIdle ==
    /\ rec = "missing" /\ storage = {} /\ upc = "idle" /\ dpc = "idle"
    /\ ingestOk = FALSE /\ dbUpload = "none" /\ metaUpload = "none"
    /\ recordInserted = FALSE /\ uresult = "none" /\ dstatus = 0
    /\ fileList = {} /\ deletes = 0 /\ statusLog = <<>>

\* validateDatabase is not called
ValidateIdle ==
    /\ expectedSchema = [expectedTables |-> <<>>, expectedColumns |-> <<>>,
                         expectedDataTypes |-> <<>>]
    /\ actualDb = <<>>
    /\ vpc = "idle" /\ tableIdx = 0
    /\ result = [success |-> TRUE, errors |-> {}, warnings |-> {}]

\* no sheet is being turned into a table
SheetIdle ==
    /\ originalCols = <<>> /\ nrows = 0 /\ colMapping = <<>> /\ cols = <<>>
    /\ tableCols = <<>> /\ tableRows = <<>> /\ cpc = "idle"

\* sanitizeColumnName is not called
HeaderIdle ==
    /\ header = <<>> /\ sanitized = <<>> /\ again = <<>>
    /\ resanitized = <<>> /\ hpc = "idle"

ColumnsIdle == SheetIdle /\ HeaderIdle

\* no request is being cleaned up
CleanupIdle ==
    /\ ckind = "none" /\ primary = "none" /\ failing = {}
    /\ hasConnection = FALSE /\ hasPath = FALSE /\ kpc = "idle"
    /\ cleanupRaised = FALSE /\ response = "none"

-----------------------------------------------------------------------------
(* processExcelFile: one action per awaited step *)

\* the state once the workbook is parsed, the instance created and the
\* connection opened (database.ts:134-164)
IngestInit ==
    /\ wb \in Workbooks
    /\ db0 \in StaleDatabases
    /\ db = db0
    /\ expectedTables = Len(wb)
    /\ ipc = "preflight"
    /\ idx = 1
    /\ inserted = 0
    /\ tableCount = -1
    /\ handles = {"instance", "connection"}
    /\ flushFailed = {}
    /\ ilog = <<>>
    /\ metaWritten = FALSE
    /\ iresult = "none"
    /\ sheetsProcessed = -1
    /\ GuardIdle
    /\ QueryIdle
    /\ StreamIdle
    /\ FilesIdle
    /\ RecordIdle
    /\ ValidateIdle
    /\ ColumnsIdle
    /\ CleanupIdle

\* SHOW TABLES, then drop every table that no sheet of the workbook names
PreflightCleanup ==
    /\ ipc = "preflight"
    /\ db' = [t \in (DOMAIN db) \cap expectedTableNames |-> db[t]]
    /\ ipc' = "loop"
    /\ Logged(<<"preflight", 0>>)
    /\ UNCHANGED notIngest
    /\ UNCHANGED <<wb, db0, expectedTables, idx, inserted, tableCount, handles,
                   flushFailed, metaWritten, iresult, sheetsProcessed>>

\* if (!rows.length) continue
SkipEmptySheet ==
    /\ ipc = "loop"
    /\ idx <= Len(wb)
    /\ wb[idx].rows = 0
    /\ idx' = idx + 1
    /\ UNCHANGED notIngest
    /\ UNCHANGED <<wb, db0, db, expectedTables, ipc, inserted, tableCount,
                   handles, flushFailed, ilog, metaWritten, iresult,
                   sheetsProcessed>>

\* DROP TABLE IF EXISTS tbl
DropExisting ==
    /\ ipc = "loop"
    /\ idx <= Len(wb)
    /\ wb[idx].rows > 0
    /\ db' = DropTable(db, tbl)
    /\ ipc' = "create"
    /\ Logged(<<"drop", idx>>)
    /\ UNCHANGED notIngest
    /\ UNCHANGED <<wb, db0, expectedTables, idx, inserted, tableCount, handles,
                   flushFailed, metaWritten, iresult, sheetsProcessed>>

\* CREATE TABLE tbl (...), then the INSERT statement is prepared
CreateTable ==
    /\ ipc = "create"
    /\ db' = [x \in (DOMAIN db) \cup {tbl} |->
                 IF x = tbl THEN [rows |-> 0, fresh |-> TRUE] ELSE db[x]]
    /\ inserted' = 0
    /\ ipc' = "insert"
    /\ Logged(<<"create", idx>>)
    /\ UNCHANGED notIngest
    /\ UNCHANGED <<wb, db0, expectedTables, idx, tableCount, handles,
                   flushFailed, metaWritten, iresult, sheetsProcessed>>

\* (mutant) the row is run once for the sample log and once more in the loop
InsertRow_Twice ==
    /\ ipc = "insert"
    /\ inserted < wb[idx].rows
    /\ db' = [db EXCEPT ![tbl].rows = @ + 2]
    /\ inserted' = inserted + 1
    /\ Logged(<<"insert", idx>>)
    /\ UNCHANGED notIngest
    /\ UNCHANGED <<wb, db0, expectedTables, ipc, idx, tableCount, handles,
                   flushFailed, metaWritten, iresult, sheetsProcessed>>

\* one pass of the row loop: bind the values, stmt.run(), insertedRows++
InsertRow ==
    /\ ipc = "insert"
    /\ inserted < wb[idx].rows
    /\ db' = [db EXCEPT ![tbl].rows = @ + 1]
    /\ inserted' = inserted + 1
    /\ Logged(<<"insert", idx>>)
    /\ UNCHANGED notIngest
    /\ UNCHANGED <<wb, db0, expectedTables, ipc, idx, tableCount, handles,
                   flushFailed, metaWritten, iresult, sheetsProcessed>>

\* SELECT COUNT(*) FROM tbl; a difference is only a warning
VerifyRowCount ==
    /\ ipc = "insert"
    /\ inserted = wb[idx].rows
    /\ idx' = idx + 1
    /\ ipc' = "loop"
    /\ Logged(<<"count", idx>>)
    /\ UNCHANGED notIngest
    /\ UNCHANGED <<wb, db0, db, expectedTables, inserted, tableCount, handles,
                   flushFailed, metaWritten, iresult, sheetsProcessed>>

\* (mutant) the verification logs the mismatch and carries on
VerifyTableCount_NoThrow ==
    /\ ipc = "loop"
    /\ idx > Len(wb)
    /\ tableCount' = Cardinality(DOMAIN db)
    /\ ipc' = "commit"
    /\ Logged(<<"verify", 0>>)
    /\ UNCHANGED notIngest
    /\ UNCHANGED <<wb, db0, db, expectedTables, idx, inserted, handles,
                   flushFailed, metaWritten, iresult, sheetsProcessed>>

\* (mutant) only a count above expectedTables throws
VerifyTableCount_AtMost ==
    /\ ipc = "loop"
    /\ idx > Len(wb)
    /\ tableCount' = Cardinality(DOMAIN db)
    /\ IF tableCount' > expectedTables
       THEN ipc' = "thrown" /\ iresult' = "error"
       ELSE ipc' = "commit" /\ iresult' = iresult
    /\ Logged(<<"verify", 0>>)
    /\ UNCHANGED notIngest
    /\ UNCHANGED <<wb, db0, db, expectedTables, idx, inserted, handles,
                   flushFailed, metaWritten, sheetsProcessed>>

\* SHOW TABLES after the last sheet; a count other than expectedTables throws
VerifyTableCount ==
    /\ ipc = "loop"
    /\ idx > Len(wb)
    /\ tableCount' = Cardinality(DOMAIN db)
    /\ IF tableCount' # expectedTables
       THEN ipc' = "thrown" /\ iresult' = "error"
       ELSE ipc' = "commit" /\ iresult' = iresult
    /\ Logged(<<"verify", 0>>)
    /\ UNCHANGED notIngest
    /\ UNCHANGED <<wb, db0, db, expectedTables, idx, inserted, handles,
                   flushFailed, metaWritten, sheetsProcessed>>

\* (mutant) the commit goes straight on to closing the connection
Commit_SkipsCheckpoint ==
    /\ ipc = "commit"
    /\ \E ok \in BOOLEAN :
          flushFailed' = IF ok THEN flushFailed ELSE flushFailed \cup {"commit"}
    /\ ipc' = "closeConnection"
    /\ Logged(<<"commit", 0>>)
    /\ UNCHANGED notIngest
    /\ UNCHANGED <<wb, db0, db, expectedTables, idx, inserted, tableCount,
                   handles, metaWritten, iresult, sheetsProcessed>>

\* try { COMMIT } catch { log }
Commit ==
    /\ ipc = "commit"
    /\ \E ok \in BOOLEAN :
          flushFailed' = IF ok THEN flushFailed ELSE flushFailed \cup {"commit"}
    /\ ipc' = "checkpoint"
    /\ Logged(<<"commit", 0>>)
    /\ UNCHANGED notIngest
    /\ UNCHANGED <<wb, db0, db, expectedTables, idx, inserted, tableCount,
                   handles, metaWritten, iresult, sheetsProcessed>>

\* (mutant) a failed checkpoint is not caught
Checkpoint_Fatal ==
    /\ ipc = "checkpoint"
    /\ \E ok \in BOOLEAN :
          /\ flushFailed' = IF ok THEN flushFailed ELSE flushFailed \cup {"checkpoint"}
          /\ ipc' = IF ok THEN "closeConnection" ELSE "thrown"
          /\ iresult' = IF ok THEN iresult ELSE "error"
    /\ Logged(<<"checkpoint", 0>>)
    /\ UNCHANGED notIngest
    /\ UNCHANGED <<wb, db0, db, expectedTables, idx, inserted, tableCount,
                   handles, metaWritten, sheetsProcessed>>

\* try { CHECKPOINT } catch { log }
Checkpoint ==
    /\ ipc = "checkpoint"
    /\ \E ok \in BOOLEAN :
          flushFailed' = IF ok THEN flushFailed ELSE flushFailed \cup {"checkpoint"}
    /\ ipc' = "closeConnection"
    /\ Logged(<<"checkpoint", 0>>)
    /\ UNCHANGED notIngest
    /\ UNCHANGED <<wb, db0, db, expectedTables, idx, inserted, tableCount,
                   handles, metaWritten, iresult, sheetsProcessed>>

\* try { disconnectSync() or closeSync(), whichever the driver has }
\* catch { log }: the call closes the connection, raises, or does not exist
CloseConnection ==
    /\ ipc = "closeConnection"
    /\ \E outcome \in {"closed", "raised", "unavailable"} :
          /\ handles' = IF outcome = "closed"
                        THEN handles \ {"connection"} ELSE handles
          /\ flushFailed' = IF outcome = "raised"
                            THEN flushFailed \cup {"closeConnection"}
                            ELSE flushFailed
    /\ ipc' = "closeInstance"
    /\ Logged(<<"closeConnection", 0>>)
    /\ UNCHANGED notIngest
    /\ UNCHANGED <<wb, db0, db, expectedTables, idx, inserted, tableCount,
                   metaWritten, iresult, sheetsProcessed>>

\* try { instance.close() if the driver has it } catch { log }
CloseInstance ==
    /\ ipc = "closeInstance"
    /\ \E outcome \in {"closed", "raised", "unavailable"} :
          /\ handles' = IF outcome = "closed"
                        THEN handles \ {"instance"} ELSE handles
          /\ flushFailed' = IF outcome = "raised"
                            THEN flushFailed \cup {"closeInstance"}
                            ELSE flushFailed
    /\ ipc' = "writeMetadata"
    /\ Logged(<<"closeInstance", 0>>)
    /\ UNCHANGED notIngest
    /\ UNCHANGED <<wb, db0, db, expectedTables, idx, inserted, tableCount,
                   metaWritten, iresult, sheetsProcessed>>

\* the schema descriptions (generateTableSchema never throws), then
\* fs.writeFile(metadataPath, ...)
WriteMetadata ==
    /\ ipc = "writeMetadata"
    /\ metaWritten' = TRUE
    /\ ipc' = "testDatabase"
    /\ Logged(<<"writeMetadata", 0>>)
    /\ UNCHANGED notIngest
    /\ UNCHANGED <<wb, db0, db, expectedTables, idx, inserted, tableCount,
                   handles, flushFailed, iresult, sheetsProcessed>>

\* the database file exists (DuckDBInstance.create made it), so it is opened
\* once more (testInstance, testConnection) and each table counted; neither
\* is closed; then the result is returned with
\* sheetsProcessed: wb.SheetNames.length
TestAndReturn ==
    /\ ipc = "testDatabase"
    /\ handles' = handles \cup {"testInstance", "testConnection"}
    /\ iresult' = "success"
    /\ sheetsProcessed' = Len(wb)
    /\ ipc' = "done"
    /\ Logged(<<"return", 0>>)
    /\ UNCHANGED notIngest
    /\ UNCHANGED <<wb, db0, db, expectedTables, idx, inserted, tableCount,
                   flushFailed, metaWritten>>

IngestNext ==
    \/ PreflightCleanup
    \/ SkipEmptySheet
    \/ DropExisting
    \/ CreateTable
    \/ InsertRow
    \/ VerifyRowCount
    \/ VerifyTableCount
    \/ Commit
    \/ Checkpoint
    \/ CloseConnection
    \/ CloseInstance
    \/ WriteMetadata
    \/ TestAndReturn

SpecIngest == IngestInit /\ [][IngestNext]_vars

-----------------------------------------------------------------------------
(* Claims about processExcelFile, checked under SpecIngest *)

Finished == ipc \in {"done", "thrown"}

HasEmptySheet == \E i \in DOMAIN wb : wb[i].rows = 0

\* C1: a workbook with at least one empty sheet, ingested into an empty
\* database file, is ingested successfully, with one table per non-empty
\* sheet and sheetsProcessed equal to the number of non-empty sheets.
C1_EmptySheetsExcluded ==
    (Finished /\ HasEmptySheet /\ DOMAIN db0 = {}) =>
        /\ iresult = "success"
        /\ Cardinality(DOMAIN db) = Cardinality(NonEmptySheets)
        /\ sheetsProcessed = Cardinality(NonEmptySheets)

\* C2: whenever the table count read after the last sheet differs from the
\* expected count, the run has raised: it is in its error state, has written
\* no metadata document and returned no result.
C2_TableCountMismatchRaises ==
    (tableCount # -1 /\ tableCount # expectedTables) =>
        /\ iresult = "error"
        /\ ipc = "thrown"
        /\ ~metaWritten
        /\ sheetsProcessed = -1

\* a run over a database file with leftover tables ended in the mismatch
C2_Witness ==
    /\ ipc = "thrown"
    /\ DOMAIN db0 # {}
    /\ tableCount # expectedTables

\* C3: when processExcelFile returns successfully, no instance or connection
\* it opened on the database file is still open (stated for the runs in
\* which both close calls of the flush sequence did close their handle).
C3_NoHandleOpenOnReturn ==
    (iresult = "success" /\ handles \cap {"instance", "connection"} = {}) =>
        handles = {}

SheetWork == {"drop", "create", "insert", "count"}

StepRank(k) ==
    CASE k = "drop" -> 1 [] k = "create" -> 2 [] k = "insert" -> 3
      [] k = "count" -> 4 [] OTHER -> 0

FlushTail == << <<"verify", 0>>, <<"commit", 0>>, <<"checkpoint", 0>>,
                <<"closeConnection", 0>>, <<"closeInstance", 0>>,
                <<"writeMetadata", 0>>, <<"return", 0>> >>

Occurrences(e, n) == Cardinality({ p \in 1..n : ilog[p] = e })

\* all the work of sheet i is among the first n operations
SheetComplete(i, n) ==
    /\ Occurrences(<<"drop", i>>, n) = 1
    /\ Occurrences(<<"create", i>>, n) = 1
    /\ Occurrences(<<"insert", i>>, n) = wb[i].rows
    /\ Occurrences(<<"count", i>>, n) = 1

\* C4: sheets are worked in workbook order, each one completely (drop,
\* create, every insert, count) before the next starts; the table-count
\* verification follows all sheet work; commit, checkpoint, connection close
\* and instance close are then attempted in that order, before the metadata
\* document is written and the result returned.
C4_StrictOrder ==
    /\ \A p, q \in DOMAIN ilog :
          (p < q /\ ilog[p][1] \in SheetWork /\ ilog[q][1] \in SheetWork) =>
              /\ ilog[p][2] <= ilog[q][2]
              /\ ilog[p][2] = ilog[q][2] =>
                     StepRank(ilog[p][1]) <= StepRank(ilog[q][1])
    /\ \A q \in DOMAIN ilog :
          ilog[q][1] = "drop" =>
              \A i \in NonEmptySheets : i < ilog[q][2] => SheetComplete(i, q)
    /\ \A q \in DOMAIN ilog :
          ilog[q][1] = "verify" =>
              /\ \A i \in NonEmptySheets : SheetComplete(i, q)
              /\ \A r \in DOMAIN ilog : r > q => ilog[r][1] \notin SheetWork
              /\ SubSeq(ilog, q, Len(ilog)) =
                     SubSeq(FlushTail, 1, Len(ilog) - q + 1)
    /\ metaWritten =>
          \E q \in DOMAIN ilog : ilog[q] = <<"closeInstance", 0>>
    /\ iresult = "success" =>
          /\ Len(ilog) >= Len(FlushTail)
          /\ SubSeq(ilog, Len(ilog) - Len(FlushTail) + 1, Len(ilog)) = FlushTail

\* a successful run over two sheets of two rows each
C4_Witness ==
    /\ iresult = "success"
    /\ \E i, j \in DOMAIN wb : i < j /\ wb[i].rows >= 2 /\ wb[j].rows >= 2

NameNotShared(i) ==
    \A j \in DOMAIN wb :
        j # i => createTableName(wb[j].name) # createTableName(wb[i].name)

\* the loop over the sheets has finished with sheet i
SheetDone(i) == idx > i \/ ipc \in {"commit", "checkpoint", "closeConnection",
                                     "closeInstance", "writeMetadata",
                                     "testDatabase", "done", "thrown"}

\* C21: once the loop has finished with a sheet of N >= 1 rows whose table
\* name no other sheet shares, and from then on to the end of the run, its
\* table exists, was created by this run and holds exactly N rows; the N
\* inserts are the only rows the run put into it.
C21_EachRowInsertedOnce ==
    \A i \in DOMAIN wb :
        (wb[i].rows >= 1 /\ NameNotShared(i) /\ SheetDone(i)) =>
            /\ createTableName(wb[i].name) \in DOMAIN db
            /\ db[createTableName(wb[i].name)].fresh
            /\ db[createTableName(wb[i].name)].rows = wb[i].rows
            /\ Occurrences(<<"insert", i>>, Len(ilog)) = wb[i].rows

\* a successful run whose second sheet has two rows and whose file held a
\* table of that name before
C21_Witness ==
    /\ iresult = "success"
    /\ \E i \in DOMAIN wb :
          /\ i = 2 /\ wb[i].rows = 2 /\ NameNotShared(i)
          /\ createTableName(wb[i].name) \in DOMAIN db0

\* C25: after a successful ingestion every table of the file was created by
\* this run from a non-empty sheet of the workbook; no table of a prior run
\* is left, also when its name is that of a sheet that is now empty.
C25_NoLeftoverTable ==
    iresult = "success" =>
        \A t \in DOMAIN db :
            /\ db[t].fresh
            /\ \E i \in NonEmptySheets : createTableName(wb[i].name) = t

\* the leftover tables that no sheet of the workbook names are all dropped by
\* the pre-flight pass
C25_UnrelatedTablesDropped ==
    ipc # "preflight" =>
        \A t \in DOMAIN db : ~db[t].fresh => t \in expectedTableNames

\* two non-empty sheets of the workbook derive the same table name
SharedName(i, j) ==
    /\ i < j
    /\ wb[i].rows > 0 /\ wb[j].rows > 0
    /\ createTableName(wb[i].name) = createTableName(wb[j].name)

\* C28: when two non-empty sheets derive the same table name, the table holds
\* the rows of the later sheet alone once that sheet is done, the run never
\* returns success, and a finished run has thrown on the table count.
C28_SharedNameNeverSucceeds ==
    \A i, j \in DOMAIN wb :
        SharedName(i, j) =>
            /\ iresult # "success"
            /\ ipc # "done"
            /\ SheetDone(j) =>
                   /\ db[createTableName(wb[j].name)].rows = wb[j].rows
                   /\ db[createTableName(wb[j].name)].fresh
            /\ tableCount # -1 =>
                   /\ tableCount < expectedTables
                   /\ ipc = "thrown"
                   /\ iresult = "error"

\* a run over two sheets of one table name and different row counts has
\* thrown
C28_Witness ==
    /\ ipc = "thrown"
    /\ \E i, j \in DOMAIN wb : SharedName(i, j) /\ wb[i].rows # wb[j].rows

-----------------------------------------------------------------------------
(* The SQL guard: validateSqlQuery and the direct entry point's check *)

SqlDelete == <<"d","e","l","e","t","e">>
SqlDrop == <<"d","r","o","p">>
SqlAlter == <<"a","l","t","e","r">>
SqlCreate == <<"c","r","e","a","t","e">>
SqlInsert == <<"i","n","s","e","r","t">>
SqlUpdate == <<"u","p","d","a","t","e">>

dangerousOperations ==
    <<SqlDelete, SqlDrop, SqlAlter, SqlCreate, SqlInsert, SqlUpdate>>

\* (mutant) the statement is lower-cased but not trimmed
validateSqlQuery_NoTrim(query) ==
    LET normalizedQuery == toLowerCase(query)
    IN  \E k \in DOMAIN dangerousOperations :
            startsWith(normalizedQuery, dangerousOperations[k])

\* TRUE when validateSqlQuery throws
validateSqlQuery(query) ==
    LET normalizedQuery == toLowerCase(trim(query))
    IN  \E k \in DOMAIN dangerousOperations :
            startsWith(normalizedQuery, dangerousOperations[k])

\* TRUE when the direct entry point answers 400 for the statement
directGuardRejects(query) ==
    LET normalizedQuery == toLowerCase(trim(query))
    IN  \/ startsWith(normalizedQuery, SqlDelete)
        \/ startsWith(normalizedQuery, SqlDrop)
        \/ startsWith(normalizedQuery, SqlAlter)
        \/ startsWith(normalizedQuery, SqlCreate)
        \/ startsWith(normalizedQuery, SqlInsert)
        \/ startsWith(normalizedQuery, SqlUpdate)

\* first words of the statements handed to the guards
GuardWords ==
    { SqlDelete, SqlDrop, SqlAlter, SqlCreate, SqlInsert, SqlUpdate,
      <<"s","e","l","e","c","t">>, <<"w","i","t","h">>, <<"d","r","o">>,
      <<"u","p","d","a","t","e","d","_","a","t">>, <<";","d","r","o","p">>, <<"(","i","n","s","e","r","t">>, <<>> }

GuardSuffixes ==
    { <<>>, <<" ">>, <<" ","s","o","u","r","c","e","_","d","b",".","s","h","e","e","t","_","a">>, <<";"," ","d","r","o","p"," ","t">> }

\* the word as written, in capitals, or with a capital first letter
Cased(w, mode) ==
    CASE mode = "upper" -> [k \in 1..Len(w) |-> toUpperCaseChar(w[k])]
      [] mode = "title" -> [k \in 1..Len(w) |->
                               IF k = 1 THEN toUpperCaseChar(w[k]) ELSE w[k]]
      [] OTHER -> w

Paddings == UNION { [1..n -> WhiteSpace] : n \in 0..MaxPad }

GuardInputs ==
    { pad \o Cased(w, mode) \o suf :
        pad \in Paddings, w \in GuardWords,
        mode \in {"lower", "upper", "title"}, suf \in GuardSuffixes }

GuardInit ==
    /\ gquery \in GuardInputs
    /\ gchat = "none"
    /\ gdirect = "none"
    /\ IngestIdle
    /\ QueryIdle
    /\ StreamIdle
    /\ FilesIdle
    /\ RecordIdle
    /\ ValidateIdle
    /\ ColumnsIdle
    /\ CleanupIdle

\* validateSqlQuery(gquery)
ChatGuard ==
    /\ gchat = "none"
    /\ gchat' = IF validateSqlQuery(gquery) THEN "reject" ELSE "accept"
    /\ UNCHANGED <<gquery, gdirect>>
    /\ UNCHANGED notGuard

\* the check at the head of the direct entry point
DirectGuard ==
    /\ gdirect = "none"
    /\ gdirect' = IF directGuardRejects(gquery) THEN "reject" ELSE "accept"
    /\ UNCHANGED <<gquery, gchat>>
    /\ UNCHANGED notGuard

GuardNext ==
    \/ ChatGuard
    \/ DirectGuard

SpecGuard == GuardInit /\ [][GuardNext]_vars

-----------------------------------------------------------------------------
(* Claims about the SQL guard, checked under SpecGuard *)

\* the statement, read past its leading white space and without regard to
\* case, spells one of the six verbs
BeginsWithVerb(q) ==
    \E v \in Range(dangerousOperations) :
        \E k \in 0..Len(q) :
            /\ \A j \in 1..k : q[j] \in WhiteSpace
            /\ k + Len(v) <= Len(q)
            /\ \A j \in 1..Len(v) : toLowerCaseChar(q[k + j]) = v[j]

\* C6: each guard rejects a statement exactly when its text, trimmed and
\* lower-cased, begins with delete, drop, alter, create, insert or update,
\* and the two guards give the same verdict on every statement.
C6_GuardIsVerbPrefix ==
    /\ gchat # "none" => ((gchat = "reject") <=> BeginsWithVerb(gquery))
    /\ gdirect # "none" => ((gdirect = "reject") <=> BeginsWithVerb(gquery))
    /\ (gchat # "none" /\ gdirect # "none") => gchat = gdirect

\* both guards rejected a statement with leading white space and capitals
C6_Witness ==
    /\ gchat = "reject"
    /\ gdirect = "reject"
    /\ gquery # <<>>
    /\ gquery[1] \in WhiteSpace
    /\ \E k \in DOMAIN gquery : gquery[k] \in Range(UpperSeq)

\* both guards accepted a SELECT through the source_db alias
C6_AcceptsSelect ==
    /\ gchat = "accept"
    /\ gdirect = "accept"
    /\ startsWith(gquery, <<"s","e","l","e","c","t"," ","s","o","u","r","c","e","_","d","b",".">>)

-----------------------------------------------------------------------------
(* The query entry points and LLMService.generateSqlQuery *)

\* (mutant) one retry more than the code allows
maxRetries_Three == 2 + 1

maxRetries == 2

\* statements a request body or the text-generation collaborator may hold
StmtSelect == <<"S","E","L","E","C","T"," ","1">>
StmtDrop == <<" ","D","r","o","p"," ","t">>
StmtUpdate == <<"u","p","d","a","t","e"," ","t"," ">>

\* the alias under which the workbook's database is attached, with its dot
SourceDbAlias == <<"s","o","u","r","c","e","_","d","b",".">>

SelectFrom == <<"S","E","L","E","C","T"," ","*"," ","F","R","O","M"," ">>

\* a statement over one table of the attached database
StmtFromA == SelectFrom \o SourceDbAlias \o createTableName(<<"a">>)

\* a statement over another table of it and over a table it does not have
StmtFromB ==
    SelectFrom \o SourceDbAlias \o createTableName(<<"B"," ","1">>)
        \o <<",">> \o SourceDbAlias \o <<"x">>

Statements == {StmtSelect, StmtDrop, StmtUpdate, StmtFromA, StmtFromB}

\* the attached database of the request: table name -> number of rows
SourceDb ==
    (createTableName(<<"a">>) :> 4) @@ (createTableName(<<"B"," ","1">>) :> 1)

\* the regexp class \w
WordChars == Letters \cup DigitChars \cup {"_"}

\* the longest run of \w characters at the head of s
RECURSIVE wordRun(_)
wordRun(s) ==
    IF s # <<>> /\ Head(s) \in WordChars
    THEN <<Head(s)>> \o wordRun(Tail(s))
    ELSE <<>>

\* query.match(/source_db\.(\w+)/g) with 'source_db.' taken off each match:
\* the matches from left to right, none overlapping another
RECURSIVE tableMatches(_)
tableMatches(s) ==
    IF s = <<>> THEN <<>>
    ELSE IF startsWith(s, SourceDbAlias)
            /\ wordRun(SubSeq(s, Len(SourceDbAlias) + 1, Len(s))) # <<>>
    THEN LET name == wordRun(SubSeq(s, Len(SourceDbAlias) + 1, Len(s)))
             used == Len(SourceDbAlias) + Len(name)
         IN  <<name>> \o tableMatches(SubSeq(s, used + 1, Len(s)))
    ELSE tableMatches(Tail(s))

\* [...new Set(names)]: each name once, in the order of first occurrence
RECURSIVE uniqueNames(_)
uniqueNames(names) ==
    IF names = <<>> THEN <<>>
    ELSE LET init == uniqueNames(SubSeq(names, 1, Len(names) - 1))
             last == names[Len(names)]
         IN  IF \E k \in DOMAIN init : init[k] = last
             THEN init ELSE Append(init, last)

\* `SELECT * FROM source_db.${tableName} LIMIT 3`
sampleQuery(tableName) ==
    SelectFrom \o SourceDbAlias \o tableName \o <<" ","L","I","M","I","T"," ","3">>

Min(a, b) == IF a < b THEN a ELSE b

\* the value getTableSamples returns for a statement: a table the database
\* has gives its first rows, a table it has not raises and is skipped
getTableSamples(query) ==
    LET tableNames == uniqueNames(tableMatches(query))
        found == { tableNames[k] : k \in DOMAIN tableNames } \cap DOMAIN SourceDb
    IN  [t \in found |-> Min(SourceDb[t], 3)]

\* the statements getTableSamples runs, in order
sampleQueries(query) ==
    LET tableNames == uniqueNames(tableMatches(query))
    IN  [k \in DOMAIN tableNames |-> sampleQuery(tableNames[k])]

\* what buildSqlPrompt puts into the prompt besides schema and conversation
buildSqlPrompt ==
    [kind |-> "first", failedQuery |-> <<>>, error |-> "none", errorAt |-> -1,
     samples |-> <<>>]

\* what buildRetrySqlPrompt adds: FAILED QUERY, ERROR MESSAGE and, per
\* table of tableSamples, the first 3 of its rows
buildRetrySqlPrompt(failedQuery, error, errorAt, samples) ==
    [kind |-> "retry", failedQuery |-> failedQuery, error |-> error,
     errorAt |-> errorAt,
     samples |-> [t \in DOMAIN samples |-> Min(samples[t], 3)]]

\* the prompt of the current attempt (llm.ts:38-40)
sqlPrompt ==
    IF attempt = 0 THEN buildSqlPrompt
    ELSE buildRetrySqlPrompt(lastQuery, lastError, lastErrorAt, tableSamples)

RecordStates ==
    {"missing", "created", "processing", "completed", "failed", "deletion_failed"}

QueryInit ==
    /\ qentry \in {"direct", "chat", "generate"}
    /\ hasEngine \in (IF qentry = "generate" THEN BOOLEAN ELSE {FALSE})
    /\ fileRecord \in (IF qentry = "generate" THEN {"completed"} ELSE RecordStates)
    /\ fetched = {}
    /\ stmt \in (IF qentry = "direct" THEN Statements \cup {<<>>} ELSE {<<>>})
    /\ qpc = (IF qentry = "generate" THEN "generate" ELSE "start")
    /\ gpc = (IF qentry = "generate" THEN "attempt" ELSE "idle")
    /\ attempt = 0
    /\ lastQuery = <<>>
    /\ lastError = "none"
    /\ llmCalls = 0
    /\ llmFailures = 0
    /\ samplesTaken = FALSE
    /\ trialOk = FALSE
    /\ genOutcome = "none"
    /\ genError = "none"
    /\ prompts = <<>>
    /\ generated = <<>>
    /\ tableSamples = <<>>
    /\ lastErrorAt = -1
    /\ executed = <<>>
    /\ guardRejected = FALSE
    /\ status = 0
    /\ IngestIdle
    /\ GuardIdle
    /\ StreamIdle
    /\ FilesIdle
    /\ RecordIdle
    /\ ValidateIdle
    /\ ColumnsIdle
    /\ CleanupIdle

Respond(code) == status' = code /\ qpc' = "done"

(* ---- the direct entry point: POST with {query, file_id} ---- *)

\* the body is parsed, then the guard runs on the statement
DirectValidate ==
    /\ qentry = "direct" /\ qpc = "start"
    /\ IF stmt = <<>>
       THEN Respond(400) /\ guardRejected' = guardRejected
       ELSE IF directGuardRejects(stmt)
       THEN Respond(400) /\ guardRejected' = TRUE
       ELSE qpc' = "record" /\ status' = status /\ guardRejected' = guardRejected
    /\ UNCHANGED <<requestVars, genVars, stmt, executed>>
    /\ UNCHANGED notQuery

\* getFileRecord: 404 without a record, 400 unless it is completed
DirectFileRecord ==
    /\ qentry = "direct" /\ qpc = "record"
    /\ IF fileRecord = "missing" THEN Respond(404)
       ELSE IF fileRecord # "completed" THEN Respond(400)
       ELSE qpc' = "setup" /\ status' = status
    /\ UNCHANGED <<requestVars, genVars, stmt, executed, guardRejected>>
    /\ UNCHANGED notQuery

\* metadata (failure tolerated), database download, schema discovery,
\* in-memory instance, ATTACH; an error is answered by the catch block
\* with 200 or 500, depending on the words of its message
DirectSetup ==
    /\ qentry = "direct" /\ qpc = "setup"
    /\ \E ok \in BOOLEAN, isSqlError \in BOOLEAN :
          IF ok THEN qpc' = "execute" /\ status' = status
          ELSE Respond(IF isSqlError THEN 200 ELSE 500)
    /\ fetched' = {"metadata", "database"}
    /\ UNCHANGED <<qentry, hasEngine, fileRecord>>
    /\ UNCHANGED <<genVars, stmt, executed, guardRejected>>
    /\ UNCHANGED notQuery

\* connection.run(query)
DirectExecute ==
    /\ qentry = "direct" /\ qpc = "execute"
    /\ executed' = Append(executed, stmt)
    /\ \E ok \in BOOLEAN, isSqlError \in BOOLEAN :
          IF ok THEN Respond(200)
          ELSE Respond(IF isSqlError THEN 200 ELSE 500)
    /\ UNCHANGED <<requestVars, genVars, stmt, guardRejected>>
    /\ UNCHANGED notQuery

(* ---- generateSqlQuery(messages, metadata, dbManager?) ---- *)

\* (mutant) a failed collaborator call is retried without counting it
GenerateObject_SameAttempt ==
    /\ gpc = "attempt"
    /\ llmCalls' = llmCalls + 1
    /\ prompts' = Append(prompts, sqlPrompt)
    /\ \/ \E q \in Statements :
             /\ lastQuery' = trim(q)
             /\ generated' = Append(generated, [query |-> trim(q), failed |-> "none"])
             /\ IF hasEngine /\ attempt < maxRetries
                THEN gpc' = "trial" /\ genOutcome' = genOutcome
                ELSE gpc' = "done" /\ genOutcome' = "returned"
             /\ UNCHANGED <<attempt, lastError, lastErrorAt, llmFailures, genError>>
       \/ /\ lastError' = "llm"
          /\ lastErrorAt' = attempt
          /\ generated' = Append(generated, [query |-> <<>>, failed |-> "llm"])
          /\ llmFailures' = llmFailures + 1
          /\ UNCHANGED <<gpc, attempt, genOutcome, genError, lastQuery>>
    /\ UNCHANGED <<requestVars, samplesTaken, trialOk, tableSamples, stmt, qpc,
                   executed, guardRejected, status>>
    /\ UNCHANGED notQuery

\* one pass of the loop up to the collaborator's answer: the prompt is
\* built, generateObject is called; its statement is trimmed and kept, then
\* tried out (engine given, not the last attempt) or returned; its error is
\* kept as lastError and thrown on the last attempt, else the loop goes on
GenerateObject ==
    /\ gpc = "attempt"
    /\ attempt <= maxRetries
    /\ llmCalls' = llmCalls + 1
    /\ prompts' = Append(prompts, sqlPrompt)
    /\ \/ \E q \in Statements :
             /\ lastQuery' = trim(q)
             /\ generated' = Append(generated, [query |-> trim(q), failed |-> "none"])
             /\ IF hasEngine /\ attempt < maxRetries
                THEN gpc' = "trial" /\ genOutcome' = genOutcome
                ELSE gpc' = "done" /\ genOutcome' = "returned"
             /\ UNCHANGED <<attempt, lastError, lastErrorAt, llmFailures, genError>>
       \/ /\ lastError' = "llm"
          /\ lastErrorAt' = attempt
          /\ generated' = Append(generated, [query |-> <<>>, failed |-> "llm"])
          /\ llmFailures' = llmFailures + 1
          /\ IF attempt = maxRetries
             THEN /\ gpc' = "done" /\ genOutcome' = "raised" /\ genError' = "llm"
                  /\ attempt' = attempt
             ELSE /\ attempt' = attempt + 1
                  /\ UNCHANGED <<gpc, genOutcome, genError>>
          /\ UNCHANGED lastQuery
    /\ UNCHANGED <<requestVars, samplesTaken, trialOk, tableSamples, stmt, qpc,
                   executed, guardRejected, status>>
    /\ UNCHANGED notQuery

\* dbManager.executeQuery(cleanSqlQuery): on success the statement is
\* returned; on failure the error is kept, and the loop continues, after
\* getTableSamples on attempt 0
TrialExecute ==
    /\ gpc = "trial"
    /\ executed' = Append(executed, lastQuery)
    /\ \E ok \in BOOLEAN :
          IF ok
          THEN /\ trialOk' = TRUE
               /\ gpc' = "done" /\ genOutcome' = "returned"
               /\ UNCHANGED <<attempt, lastError, lastErrorAt, generated>>
          ELSE /\ lastError' = "exec"
               /\ lastErrorAt' = attempt
               /\ generated' = [generated EXCEPT ![Len(generated)].failed = "exec"]
               /\ trialOk' = trialOk
               /\ genOutcome' = genOutcome
               /\ IF attempt = 0
                  THEN gpc' = "samples" /\ attempt' = attempt
                  ELSE gpc' = "attempt" /\ attempt' = attempt + 1
    /\ UNCHANGED <<requestVars, lastQuery, llmCalls, llmFailures, samplesTaken,
                   genError, prompts, tableSamples, stmt, qpc, guardRejected,
                   status>>
    /\ UNCHANGED notQuery

\* tableSamples = await getTableSamples(dbManager, cleanSqlQuery): never
\* throws; one sample statement is run per table the statement names
TableSamples ==
    /\ gpc = "samples"
    /\ samplesTaken' = TRUE
    /\ tableSamples' = getTableSamples(lastQuery)
    /\ executed' = executed \o sampleQueries(lastQuery)
    /\ attempt' = attempt + 1
    /\ gpc' = "attempt"
    /\ UNCHANGED <<requestVars, lastQuery, lastError, lastErrorAt, llmCalls,
                   llmFailures, trialOk, genOutcome, genError, prompts,
                   generated, stmt, qpc, guardRejected, status>>
    /\ UNCHANGED notQuery

\* generateSqlQuery called on its own has returned or raised
GenerateDone ==
    /\ qentry = "generate" /\ qpc = "generate" /\ gpc = "done"
    /\ qpc' = "done"
    /\ UNCHANGED <<requestVars, genVars, stmt, executed, guardRejected, status>>
    /\ UNCHANGED notQuery

(* ---- the chat entry point: POST with {messages, file_id} ---- *)

\* the body is parsed: 400 without messages or file_id
ChatValidate ==
    /\ qentry = "chat" /\ qpc = "start"
    /\ \E valid \in BOOLEAN :
          IF valid THEN qpc' = "record" /\ status' = status ELSE Respond(400)
    /\ UNCHANGED <<requestVars, genVars, stmt, executed, guardRejected>>
    /\ UNCHANGED notQuery

\* (mutant) only a missing record is refused
ChatFileRecord_AnyStatus ==
    /\ qentry = "chat" /\ qpc = "record"
    /\ IF fileRecord = "missing" THEN Respond(404)
       ELSE qpc' = "setup" /\ status' = status
    /\ UNCHANGED <<requestVars, genVars, stmt, executed, guardRejected>>
    /\ UNCHANGED notQuery

\* getFileRecord: 404 without a record, 400 unless it is completed
ChatFileRecord ==
    /\ qentry = "chat" /\ qpc = "record"
    /\ IF fileRecord = "missing" THEN Respond(404)
       ELSE IF fileRecord # "completed" THEN Respond(400)
       ELSE qpc' = "setup" /\ status' = status
    /\ UNCHANGED <<requestVars, genVars, stmt, executed, guardRejected>>
    /\ UNCHANGED notQuery

\* loadMetadata, downloadDatabaseFile, dbManager.initialize; an error is
\* answered 500; then generateSqlQuery(body.messages, metadata) is entered
ChatSetup ==
    /\ qentry = "chat" /\ qpc = "setup"
    /\ \E ok \in BOOLEAN :
          IF ok THEN qpc' = "generate" /\ gpc' = "attempt" /\ status' = status
          ELSE Respond(500) /\ gpc' = gpc
    /\ fetched' = {"metadata", "database"}
    /\ UNCHANGED <<qentry, hasEngine, fileRecord>>
    /\ UNCHANGED <<attempt, lastQuery, lastError, llmCalls,
                   llmFailures, samplesTaken, trialOk, genOutcome, genError,
                   prompts, generated, tableSamples, lastErrorAt,
                   stmt, executed, guardRejected>>
    /\ UNCHANGED notQuery

\* generateSqlQuery is back: its error is answered 500; its statement goes
\* through validateSqlQuery, whose error is answered by the same catch block
ChatValidateSql ==
    /\ qentry = "chat" /\ qpc = "generate" /\ gpc = "done"
    /\ IF genOutcome = "raised"
       THEN Respond(500) /\ UNCHANGED <<stmt, guardRejected>>
       ELSE /\ stmt' = lastQuery
            /\ IF validateSqlQuery(lastQuery)
               THEN Respond(500) /\ guardRejected' = TRUE
               ELSE qpc' = "execute" /\ status' = status
                    /\ guardRejected' = guardRejected
    /\ UNCHANGED <<requestVars, genVars, executed>>
    /\ UNCHANGED notQuery

\* dbManager.executeQuery(sqlQuery), then createResponseStream and the
\* streaming response; an error of either is answered 500
ChatExecute ==
    /\ qentry = "chat" /\ qpc = "execute"
    /\ executed' = Append(executed, stmt)
    /\ \E ok \in BOOLEAN : IF ok THEN Respond(200) ELSE Respond(500)
    /\ UNCHANGED <<requestVars, genVars, stmt, guardRejected>>
    /\ UNCHANGED notQuery

QueryNext ==
    \/ DirectValidate
    \/ DirectFileRecord
    \/ DirectSetup
    \/ DirectExecute
    \/ GenerateObject
    \/ TrialExecute
    \/ TableSamples
    \/ GenerateDone
    \/ ChatValidate
    \/ ChatFileRecord
    \/ ChatSetup
    \/ ChatValidateSql
    \/ ChatExecute

SpecQuery == QueryInit /\ [][QueryNext]_vars

-----------------------------------------------------------------------------
(* Claims about the query paths, checked under SpecQuery *)

\* C7: no statement that the guard rejects is ever executed on the attached
\* database, on any of the three paths (direct, chat, trial execution).
C7_RejectedNeverExecuted ==
    \A k \in DOMAIN executed : ~validateSqlQuery(executed[k])

\* the two entry points alone: what they execute has passed their guard
C7_EntryPointsGuarded ==
    qentry \in {"direct", "chat"} =>
        \A k \in DOMAIN executed : ~validateSqlQuery(executed[k])

\* C8: a statement rejected by the guard of an entry point is answered
\* with status 400.
C8_RejectionIsClientError ==
    guardRejected => status = 400

\* C9: generateSqlQuery calls the collaborator at most 3 times and always has
\* a next step until it has returned or raised.
C9_AtMostThreeAttempts ==
    /\ llmCalls <= 3
    /\ attempt <= 2
    /\ gpc \in {"attempt", "trial", "samples"} => ENABLED QueryNext
    /\ gpc = "done" => genOutcome \in {"returned", "raised"}

\* with an engine, all three attempts were used
C9_Witness ==
    /\ hasEngine
    /\ gpc = "done"
    /\ llmCalls = 3
    /\ Len(executed) = 2

\* C10: with a live engine and no collaborator failure, generateSqlQuery
\* returns a statement only if its trial execution succeeded, and raises the
\* last execution error when every trial execution failed.
C10_ExhaustedRetriesRaise ==
    (qentry = "generate" /\ gpc = "done" /\ hasEngine /\ llmFailures = 0) =>
        /\ genOutcome = "returned" => trialOk
        /\ ~trialOk => (genOutcome = "raised" /\ genError = "exec")

\* the tables a statement names through the alias that could be sampled
Referenced(query) == DOMAIN getTableSamples(query)

\* C11: every prompt built for an attempt >= 1 carries the statement that
\* failed in the attempt before it, the execution error of that failure, and
\* the samples (at most 3 rows per table) of the tables that failed
\* statement names through the alias; and when attempt 0 gave a statement
\* that failed and attempt 1 one that ran, the attempt-1 statement is
\* returned.
C11_RetryPromptGrounded ==
    /\ \A k \in DOMAIN prompts :
          k >= 2 =>
              /\ generated[k - 1].failed = "exec"
              /\ prompts[k].failedQuery = generated[k - 1].query
              /\ prompts[k].error = "exec"
              /\ prompts[k].errorAt = k - 2
              /\ DOMAIN prompts[k].samples = Referenced(generated[k - 1].query)
              /\ \A t \in DOMAIN prompts[k].samples :
                     prompts[k].samples[t] = Min(SourceDb[t], 3)
    /\ (gpc = "done" /\ Len(generated) = 2 /\ trialOk) =>
          /\ genOutcome = "returned"
          /\ lastQuery = generated[2].query

\* the first retry alone, in a call without collaborator failure: its prompt
\* carries the attempt-0 statement, its execution error and the samples of
\* the tables that statement names
C11_FirstRetryGrounded ==
    (llmFailures = 0 /\ Len(prompts) >= 2) =>
        /\ prompts[2].failedQuery = generated[1].query
        /\ prompts[2].error = "exec" /\ prompts[2].errorAt = 0
        /\ DOMAIN prompts[2].samples = Referenced(generated[1].query)
        /\ \A t \in DOMAIN prompts[2].samples :
               prompts[2].samples[t] = Min(SourceDb[t], 3)

\* attempt 0 failed on a statement over a table of 4 rows, attempt 1 ran
C11_FirstRetryReached ==
    /\ gpc = "done" /\ trialOk /\ Len(prompts) = 2
    /\ generated[1].query = StmtFromA
    /\ prompts[2].samples = (createTableName(<<"a">>) :> 3)

\* C12: a failure of the text-generation collaborator ends generateSqlQuery:
\* the failed call is the last call, and its error is raised to the caller.
C12_CollaboratorFailureNotRetried ==
    \A k \in DOMAIN generated :
        generated[k].failed = "llm" =>
            /\ k = Len(generated)
            /\ gpc = "done"
            /\ genOutcome = "raised"
            /\ genError = "llm"

-----------------------------------------------------------------------------
(* LLMService.createResponseStream: the start callback of the stream *)

\* narration tokens; the collaborator may yield an empty one
Tokens == {"a", "b", ""}

TokenStreams == UNION { [1..n -> Tokens] : n \in 0..MaxTokens }

\* the stream object exists: the response prompt is built and streamText has
\* been called (llm.ts:204-253)
StreamInit ==
    /\ textStream \in TokenStreams
    /\ streamRaises \in BOOLEAN
    /\ chunks = <<>>
    /\ yielded = 0
    /\ spc = "metadata"
    /\ streamEnd = "open"
    /\ IngestIdle
    /\ GuardIdle
    /\ QueryIdle
    /\ FilesIdle
    /\ RecordIdle
    /\ ValidateIdle
    /\ ColumnsIdle
    /\ CleanupIdle

\* controller.enqueue of one StreamChunk, framed as 'data: <json>\n\n'
enqueue(chunk) == chunks' = Append(chunks, chunk)

\* (mutant) the metadata chunk is not sent
EnqueueMetadata_Skipped ==
    /\ spc = "metadata"
    /\ spc' = "text"
    /\ UNCHANGED <<textStream, streamRaises, chunks, yielded, streamEnd>>
    /\ UNCHANGED notStream

\* Send initial metadata
EnqueueMetadata ==
    /\ spc = "metadata"
    /\ enqueue([type |-> "metadata", content |-> ""])
    /\ spc' = "text"
    /\ UNCHANGED <<textStream, streamRaises, yielded, streamEnd>>
    /\ UNCHANGED notStream

\* one pass of for await (const textPart of textStream)
EnqueueText ==
    /\ spc = "text"
    /\ yielded < Len(textStream)
    /\ enqueue([type |-> "text", content |-> textStream[yielded + 1]])
    /\ yielded' = yielded + 1
    /\ UNCHANGED <<textStream, streamRaises, spc, streamEnd>>
    /\ UNCHANGED notStream

\* (mutant) the catch block ends the stream like a finished narration
TextStreamRaises_SendsDone ==
    /\ spc = "text"
    /\ yielded = Len(textStream)
    /\ streamRaises
    /\ enqueue([type |-> "done", content |-> ""])
    /\ streamEnd' = "closed"
    /\ spc' = "done"
    /\ UNCHANGED <<textStream, streamRaises, yielded>>
    /\ UNCHANGED notStream

\* the iteration raises: catch { controller.error(error) }
TextStreamRaises ==
    /\ spc = "text"
    /\ yielded = Len(textStream)
    /\ streamRaises
    /\ streamEnd' = "errored"
    /\ spc' = "done"
    /\ UNCHANGED <<textStream, streamRaises, chunks, yielded>>
    /\ UNCHANGED notStream

\* the iteration is over: Send completion signal
EnqueueDone ==
    /\ spc = "text"
    /\ yielded = Len(textStream)
    /\ ~streamRaises
    /\ enqueue([type |-> "done", content |-> ""])
    /\ spc' = "close"
    /\ UNCHANGED <<textStream, streamRaises, yielded, streamEnd>>
    /\ UNCHANGED notStream

\* controller.close()
CloseStream ==
    /\ spc = "close"
    /\ streamEnd' = "closed"
    /\ spc' = "done"
    /\ UNCHANGED <<textStream, streamRaises, chunks, yielded>>
    /\ UNCHANGED notStream

StreamNext ==
    \/ EnqueueMetadata
    \/ EnqueueText
    \/ TextStreamRaises
    \/ EnqueueDone
    \/ CloseStream

SpecStream == StreamInit /\ [][StreamNext]_vars

-----------------------------------------------------------------------------
(* Claims about the response stream, checked under SpecStream *)

\* the chunks of a stream that ends: metadata, one text chunk per token in
\* the collaborator's order, done
ExpectedChunks ==
    << [type |-> "metadata", content |-> ""] >>
        \o [k \in 1..Len(textStream) |-> [type |-> "text", content |-> textStream[k]]]
        \o << [type |-> "done", content |-> ""] >>

\* C13: what a stream has emitted is at every moment a beginning of
\* "one metadata chunk, the text chunks in the collaborator's order, one done
\* chunk"; end-of-stream is signalled only after all of it was emitted; and
\* while the collaborator does not raise, the stream goes on until then.
C13_StreamOrder ==
    /\ Len(chunks) <= Len(ExpectedChunks)
    /\ chunks = SubSeq(ExpectedChunks, 1, Len(chunks))
    /\ spc # "metadata" => Len(chunks) >= 1
    /\ streamEnd = "closed" => chunks = ExpectedChunks
    /\ streamEnd = "errored" => streamRaises
    /\ (~streamRaises /\ streamEnd = "open") => ENABLED StreamNext

\* a stream over zero narration tokens has ended
C13_Witness ==
    /\ textStream = <<>>
    /\ streamEnd = "closed"
    /\ Len(chunks) = 2

\* a stream over MaxTokens tokens has ended
C13_AllTokensStreamed ==
    /\ Len(textStream) = MaxTokens
    /\ streamEnd = "closed"

\* C30: when the collaborator raises after the tokens of textStream, the
\* stream never gets a done chunk and is never closed; what it has emitted is
\* the metadata chunk followed by text chunks in the collaborator's order;
\* it goes on until it is put in the error state, with every token yielded
\* before the failure emitted, and nothing happens to it after that.
C30_FailedNarrationErrorsStream ==
    streamRaises =>
        /\ \A k \in DOMAIN chunks : chunks[k].type # "done"
        /\ streamEnd # "closed"
        /\ Len(chunks) <= 1 + Len(textStream)
        /\ chunks = SubSeq(ExpectedChunks, 1, Len(chunks))
        /\ streamEnd = "open" => ENABLED StreamNext
        /\ streamEnd = "errored" =>
               /\ Len(chunks) = 1 + Len(textStream)
               /\ chunks[1].type = "metadata"
               /\ ~ENABLED StreamNext

\* the collaborator raised after two tokens and the stream is in the error
\* state
C30_Witness ==
    /\ streamRaises
    /\ Len(textStream) = 2
    /\ streamEnd = "errored"
    /\ Len(chunks) = 3

-----------------------------------------------------------------------------
(* Temporary local files: downloadFileFromStorage, cleanupTempFiles and the
   operations that call them *)

OpIds == {1, 2}

\* chat request, direct query request, metadata load, upload action,
\* database validation
OpKinds == {"chat", "direct", "metadata", "upload", "validate"}

WorkbookIds == {"w1", "w2"}

NoPath == <<>>

\* path.basename of the storage path of an object of workbook w: the
\* metadata document is 'metadata.json' under every per-hash folder, the
\* database file is named after the hash, the uploaded original after the
\* upload (r) that stored it
basename(object, w, r) ==
    CASE object = "metadata" -> <<"metadata.json">>
      [] object = "original" -> <<"original", r>>
      [] OTHER -> <<"duckdb", w>>

\* path.join(tmpDir, `${Date.now()}_${path.basename(filePath)}`)
tempPath(object, w, r) == <<now>> \o basename(object, w, r)

\* first position of an operation of each kind
FirstStep(kind) ==
    CASE kind \in {"chat", "direct"} -> "start"
      [] kind = "metadata" -> "meta"
      [] kind = "upload" -> "origDownload"
      [] kind = "validate" -> "dbDownload"

FilesInit ==
    /\ ops \in [OpIds -> [kind : OpKinds, w : WorkbookIds, pc : {"init"},
                          metaPath : {NoPath}, dbPath : {NoPath},
                          filePath : {NoPath}]]
    /\ \A r1, r2 \in OpIds :
          (r1 # r2 /\ ops[r1].kind = "upload" /\ ops[r2].kind = "upload") =>
              ops[r1].w # ops[r2].w
    /\ disk = <<>>
    /\ downloaded = [r \in OpIds |-> {}]
    /\ unlinked = [r \in OpIds |-> {}]
    /\ now = 0
    /\ foreign = {}
    /\ IngestIdle
    /\ GuardIdle
    /\ QueryIdle
    /\ StreamIdle
    /\ RecordIdle
    /\ ValidateIdle
    /\ ColumnsIdle
    /\ CleanupIdle

\* the file at path p is written by operation r (fs.writeFile replaces
\* whatever was at the path)
Written(p, r) ==
    /\ disk' = [x \in (DOMAIN disk) \cup {p} |-> IF x = p THEN r ELSE disk[x]]
    /\ downloaded' = [downloaded EXCEPT ![r] = @ \cup {p}]

\* cleanupTempFiles(p) by operation r: fs.unlink, a failure is only logged
Unlink(p, r) ==
    /\ unlinked' = [unlinked EXCEPT ![r] = @ \cup {p}]
    /\ disk' = [x \in (DOMAIN disk) \ {p} |-> disk[x]]
    /\ foreign' = foreign \cup
          { <<"delete", r, p>> : o \in { o \in OpIds \ {r} :
                /\ ops[o].pc \notin {"init", "done"}
                /\ p \in downloaded[o] \ unlinked[o] } }

\* operation r reads the file at p (fs.readFile, ATTACH, DuckDBInstance.create)
ReadsForeign(p, r) ==
    IF p \in DOMAIN disk /\ disk[p] # r
    THEN foreign \cup { <<"read", r, p>> }
    ELSE foreign

\* the clock advances
Tick ==
    /\ now < MaxClock
    /\ now' = now + 1
    /\ UNCHANGED <<ops, disk, downloaded, unlinked, foreign>>
    /\ UNCHANGED notFiles

\* the operation is called
BeginOp(r) ==
    /\ ops[r].pc = "init"
    /\ ops' = [ops EXCEPT ![r].pc = FirstStep(ops[r].kind)]
    /\ UNCHANGED <<disk, downloaded, unlinked, now, foreign>>
    /\ UNCHANGED notFiles

\* body, authentication and file record of a chat or direct query request:
\* an early response (400, 404) goes through the finally block
CheckRequest(r) ==
    /\ ops[r].pc = "start"
    /\ \E early \in BOOLEAN :
          ops' = [ops EXCEPT ![r].pc = IF early THEN "finally" ELSE "meta"]
    /\ UNCHANGED <<disk, downloaded, unlinked, now, foreign>>
    /\ UNCHANGED notFiles

\* where an operation goes on after its metadata load
AfterMeta(kind) == IF kind = "metadata" THEN "done" ELSE "dbDownload"

\* downloadFileFromStorage by operation r, its result kept in ops[r][field]:
\* the storage download fails and nothing is written; or the file is
\* written and its path returned; or writing it (or the stat after it)
\* raises with the file left at the path
Download(r, object, field, okPc, failPc) ==
    LET p == tempPath(object, ops[r].w, r)
    IN  \E outcome \in {"ok", "storageError", "saveError"} :
            CASE outcome = "ok" ->
                    /\ Written(p, r)
                    /\ ops' = [ops EXCEPT ![r][field] = p, ![r].pc = okPc]
              [] outcome = "storageError" ->
                    /\ ops' = [ops EXCEPT ![r].pc = failPc]
                    /\ UNCHANGED <<disk, downloaded>>
              [] outcome = "saveError" ->
                    /\ Written(p, r)
                    /\ ops' = [ops EXCEPT ![r].pc = failPc]

\* loadMetadata (and the same lines of the direct query request):
\* downloadFileFromStorage(supabase, metadataStoragePath); an error is caught
LoadMetadataDownload(r) ==
    /\ ops[r].pc = "meta"
    /\ Download(r, "metadata", "metaPath", "metaRead", AfterMeta(ops[r].kind))
    /\ UNCHANGED <<unlinked, now, foreign>>
    /\ UNCHANGED notFiles

\* fs.readFile(localMetadataPath), JSON.parse: an error is caught, and the
\* cleanup line after them is not reached
LoadMetadataRead(r) ==
    /\ ops[r].pc = "metaRead"
    /\ foreign' = ReadsForeign(ops[r].metaPath, r)
    /\ \E ok \in BOOLEAN :
          ops' = [ops EXCEPT ![r].pc =
                     IF ok THEN "metaCleanup" ELSE AfterMeta(ops[r].kind)]
    /\ UNCHANGED <<disk, downloaded, unlinked, now>>
    /\ UNCHANGED notFiles

\* cleanupTempFiles(localMetadataPath)
LoadMetadataCleanup(r) ==
    /\ ops[r].pc = "metaCleanup"
    /\ Unlink(ops[r].metaPath, r)
    /\ ops' = [ops EXCEPT ![r].pc = AfterMeta(ops[r].kind)]
    /\ UNCHANGED <<downloaded, now>>
    /\ UNCHANGED notFiles

\* localDbPath = await downloadFileFromStorage(...): an error leaves the try
\* block of the request, and is caught by validateDatabase
DownloadDatabase(r) ==
    /\ ops[r].pc = "dbDownload"
    /\ Download(r, "duckdb", "dbPath", "attach",
                IF ops[r].kind = "validate" THEN "done" ELSE "finally")
    /\ UNCHANGED <<unlinked, now, foreign>>
    /\ UNCHANGED notFiles

\* ATTACH '${localDbPath}' AS source_db and the statements run on it; then
\* the request reaches its finally block, and validateDatabase returns
AttachDatabase(r) ==
    /\ ops[r].pc = "attach"
    /\ foreign' = ReadsForeign(ops[r].dbPath, r)
    /\ ops' = [ops EXCEPT ![r].pc =
                  IF ops[r].kind = "validate" THEN "done" ELSE "finally"]
    /\ UNCHANGED <<disk, downloaded, unlinked, now>>
    /\ UNCHANGED notFiles

\* finally { if (localDbPath) cleanupTempFiles(localDbPath) }
Finally(r) ==
    /\ ops[r].pc = "finally"
    /\ IF ops[r].dbPath # NoPath
       THEN Unlink(ops[r].dbPath, r)
       ELSE UNCHANGED <<unlinked, disk, foreign>>
    /\ ops' = [ops EXCEPT ![r].pc = "done"]
    /\ UNCHANGED <<downloaded, now>>
    /\ UNCHANGED notFiles

\* uploadFileAction up to localFilePath = await downloadFileFromStorage(...):
\* it returns early when the file is refused, the storage upload fails or
\* the record cannot be inserted
UploadDownloadOriginal(r) ==
    /\ ops[r].pc = "origDownload"
    /\ \/ /\ ops' = [ops EXCEPT ![r].pc = "done"]
          /\ UNCHANGED <<disk, downloaded>>
       \/ Download(r, "original", "filePath", "process", "uploadCatch")
    /\ UNCHANGED <<unlinked, now, foreign>>
    /\ UNCHANGED notFiles

\* processExcelFile(localFilePath, fileId), the two uploads and the status
\* update: any of them may raise
UploadProcess(r) ==
    /\ ops[r].pc = "process"
    /\ foreign' = ReadsForeign(ops[r].filePath, r)
    /\ \E ok \in BOOLEAN :
          ops' = [ops EXCEPT ![r].pc = IF ok THEN "verifyDownload" ELSE "uploadCatch"]
    /\ UNCHANGED <<disk, downloaded, unlinked, now>>
    /\ UNCHANGED notFiles

\* verifyDatabase: localDbPath = await downloadFileFromStorage(...)
VerifyDatabaseDownload(r) ==
    /\ ops[r].pc = "verifyDownload"
    /\ Download(r, "duckdb", "dbPath", "verifyRead", "verifyFinally")
    /\ UNCHANGED <<unlinked, now, foreign>>
    /\ UNCHANGED notFiles

\* verifyDatabase: fs.stat, DuckDBInstance.create(localDbPath), the counts
VerifyDatabaseRead(r) ==
    /\ ops[r].pc = "verifyRead"
    /\ foreign' = ReadsForeign(ops[r].dbPath, r)
    /\ ops' = [ops EXCEPT ![r].pc = "verifyFinally"]
    /\ UNCHANGED <<disk, downloaded, unlinked, now>>
    /\ UNCHANGED notFiles

\* verifyDatabase: finally { if (localDbPath) cleanupTempFiles(localDbPath) }
VerifyDatabaseFinally(r) ==
    /\ ops[r].pc = "verifyFinally"
    /\ IF ops[r].dbPath # NoPath
       THEN Unlink(ops[r].dbPath, r)
       ELSE UNCHANGED <<unlinked, disk, foreign>>
    /\ ops' = [ops EXCEPT ![r].pc = "uploadCleanup"]
    /\ UNCHANGED <<downloaded, now>>
    /\ UNCHANGED notFiles

\* cleanupTempFiles(localFilePath, dbFile, metadataPath), then the result
UploadCleanup(r) ==
    /\ ops[r].pc = "uploadCleanup"
    /\ Unlink(ops[r].filePath, r)
    /\ ops' = [ops EXCEPT ![r].pc = "done"]
    /\ UNCHANGED <<downloaded, now>>
    /\ UNCHANGED notFiles

\* catch { ...; if (localFilePath) cleanupTempFiles(localFilePath) }
UploadCatch(r) ==
    /\ ops[r].pc = "uploadCatch"
    /\ IF ops[r].filePath # NoPath
       THEN Unlink(ops[r].filePath, r)
       ELSE UNCHANGED <<unlinked, disk, foreign>>
    /\ ops' = [ops EXCEPT ![r].pc = "done"]
    /\ UNCHANGED <<downloaded, now>>
    /\ UNCHANGED notFiles

FilesNext ==
    \/ Tick
    \/ \E r \in OpIds : BeginOp(r)
    \/ \E r \in OpIds : CheckRequest(r)
    \/ \E r \in OpIds : LoadMetadataDownload(r)
    \/ \E r \in OpIds : LoadMetadataRead(r)
    \/ \E r \in OpIds : LoadMetadataCleanup(r)
    \/ \E r \in OpIds : DownloadDatabase(r)
    \/ \E r \in OpIds : AttachDatabase(r)
    \/ \E r \in OpIds : Finally(r)
    \/ \E r \in OpIds : UploadDownloadOriginal(r)
    \/ \E r \in OpIds : UploadProcess(r)
    \/ \E r \in OpIds : VerifyDatabaseDownload(r)
    \/ \E r \in OpIds : VerifyDatabaseRead(r)
    \/ \E r \in OpIds : VerifyDatabaseFinally(r)
    \/ \E r \in OpIds : UploadCleanup(r)
    \/ \E r \in OpIds : UploadCatch(r)

SpecFiles == FilesInit /\ [][FilesNext]_vars

-----------------------------------------------------------------------------
(* Claims about temporary files, checked under SpecFiles *)

\* the temporary files operation r wrote and has not handed to deletion
Kept(r) == downloaded[r] \ unlinked[r]

\* C14: when an operation has finished, on whatever path, every temporary
\* file it downloaded has been handed to deletion.
C14_TempFilesDeletedOnExit ==
    \A r \in OpIds : ops[r].pc = "done" => Kept(r) = {}

\* the files an operation is working with
InUse(r) == IF ops[r].pc \in {"init", "done"} THEN {} ELSE Kept(r)

\* C15: two operations under way at the same time never have the same
\* temporary file, none reads a file another one wrote, and none deletes a
\* file another one is still using.
C15_TempFilesNotShared ==
    /\ \A r1, r2 \in OpIds : r1 # r2 => InUse(r1) \cap InUse(r2) = {}
    /\ foreign = {}

-----------------------------------------------------------------------------
(* The FileRecord of one workbook and its storage folder: uploadFileAction
   and the delete request, one after the other *)

\* the objects an upload puts under duckdb/{sha}/
FolderObjects == {"original", "database", "metadata"}

RecordInit ==
    /\ rec = "missing"
    /\ storage = {}
    /\ upc = "store"
    /\ dpc = "idle"
    /\ ingestOk = FALSE
    /\ dbUpload = "none"
    /\ metaUpload = "none"
    /\ recordInserted = FALSE
    /\ uresult = "none"
    /\ dstatus = 0
    /\ fileList = {}
    /\ deletes = 0
    /\ statusLog = <<>>
    /\ IngestIdle
    /\ GuardIdle
    /\ QueryIdle
    /\ StreamIdle
    /\ FilesIdle
    /\ ValidateIdle
    /\ ColumnsIdle
    /\ CleanupIdle

\* .update({status}) or .insert({status}) that was applied
WriteStatus(st) == rec' = st /\ statusLog' = Append(statusLog, st)

\* storage.upload(storagePath, file, {upsert: false}): an error is answered
\* with a failure result, before any record exists
StoreOriginal ==
    /\ upc = "store"
    /\ \E ok \in BOOLEAN :
          IF ok
          THEN storage' = storage \cup {"original"} /\ upc' = "insert"
               /\ uresult' = uresult
          ELSE storage' = storage /\ upc' = "done" /\ uresult' = "failure"
    /\ UNCHANGED <<rec, dpc, ingestOk, dbUpload, metaUpload, recordInserted,
                   dstatus, fileList, deletes, statusLog>>
    /\ UNCHANGED notRecord

\* insert of the record with status 'processing'; on an error the uploaded
\* file is removed (the outcome of the removal is not looked at)
InsertRecord ==
    /\ upc = "insert"
    /\ \/ /\ WriteStatus("processing")
          /\ recordInserted' = TRUE
          /\ upc' = "download"
          /\ UNCHANGED <<storage, uresult>>
       \/ /\ \E removed \in BOOLEAN :
                storage' = IF removed THEN storage \ {"original"} ELSE storage
          /\ upc' = "done"
          /\ uresult' = "failure"
          /\ UNCHANGED <<rec, statusLog, recordInserted>>
    /\ UNCHANGED <<dpc, ingestOk, dbUpload, metaUpload, dstatus, fileList,
                   deletes>>
    /\ UNCHANGED notRecord

\* localFilePath = await downloadFileFromStorage(supabase, storagePath)
FetchOriginal ==
    /\ upc = "download"
    /\ \E ok \in BOOLEAN : upc' = IF ok THEN "process" ELSE "catch"
    /\ UNCHANGED <<rec, storage, dpc, ingestOk, dbUpload, metaUpload,
                   recordInserted, uresult, dstatus, fileList, deletes,
                   statusLog>>
    /\ UNCHANGED notRecord

\* processExcelFile(localFilePath, fileId): a result, or an error (the
\* table-count mismatch among them)
Ingest ==
    /\ upc = "process"
    /\ \E ok \in BOOLEAN :
          /\ ingestOk' = ok
          /\ upc' = IF ok THEN "uploadDb" ELSE "catch"
    /\ UNCHANGED <<rec, storage, dpc, dbUpload, metaUpload, recordInserted,
                   uresult, dstatus, fileList, deletes, statusLog>>
    /\ UNCHANGED notRecord

\* dbUploadResult = await uploadToStorage(supabase, dbFile, ...): never throws
UploadDatabaseFile ==
    /\ upc = "uploadDb"
    /\ \E ok \in BOOLEAN :
          /\ dbUpload' = IF ok THEN "success" ELSE "failure"
          /\ storage' = IF ok THEN storage \cup {"database"} ELSE storage
    /\ upc' = "uploadMeta"
    /\ UNCHANGED <<rec, dpc, ingestOk, metaUpload, recordInserted, uresult,
                   dstatus, fileList, deletes, statusLog>>
    /\ UNCHANGED notRecord

\* (mutant) the action goes on unless both uploads failed
UploadMetadataFile_EitherSuffices ==
    /\ upc = "uploadMeta"
    /\ \E ok \in BOOLEAN :
          /\ metaUpload' = IF ok THEN "success" ELSE "failure"
          /\ storage' = IF ok THEN storage \cup {"metadata"} ELSE storage
          /\ upc' = IF dbUpload # "success" /\ ~ok THEN "catch" ELSE "complete"
    /\ UNCHANGED <<rec, dpc, ingestOk, dbUpload, recordInserted, uresult,
                   dstatus, fileList, deletes, statusLog>>
    /\ UNCHANGED notRecord

\* metadataUploadResult = await uploadToStorage(...), then
\* if (!dbUploadResult.success || !metadataUploadResult.success) throw
UploadMetadataFile ==
    /\ upc = "uploadMeta"
    /\ \E ok \in BOOLEAN :
          /\ metaUpload' = IF ok THEN "success" ELSE "failure"
          /\ storage' = IF ok THEN storage \cup {"metadata"} ELSE storage
          /\ upc' = IF dbUpload # "success" \/ ~ok THEN "catch" ELSE "complete"
    /\ UNCHANGED <<rec, dpc, ingestOk, dbUpload, recordInserted, uresult,
                   dstatus, fileList, deletes, statusLog>>
    /\ UNCHANGED notRecord

\* update to status 'completed'; an updateError is thrown
MarkCompleted ==
    /\ upc = "complete"
    /\ \/ WriteStatus("completed") /\ upc' = "verify"
       \/ upc' = "catch" /\ UNCHANGED <<rec, statusLog>>
    /\ UNCHANGED <<storage, dpc, ingestOk, dbUpload, metaUpload,
                   recordInserted, uresult, dstatus, fileList, deletes>>
    /\ UNCHANGED notRecord

\* (mutant) a failed verification is thrown into the catch block
VerifyAndReturn_Throws ==
    /\ upc = "verify"
    /\ \E verified \in BOOLEAN :
          IF verified THEN upc' = "done" /\ uresult' = "success"
          ELSE upc' = "catch" /\ uresult' = uresult
    /\ UNCHANGED <<rec, storage, dpc, ingestOk, dbUpload, metaUpload,
                   recordInserted, dstatus, fileList, deletes, statusLog>>
    /\ UNCHANGED notRecord

\* verifyDatabase (its errors end in its own result), cleanupTempFiles,
\* then the success result
VerifyAndReturn ==
    /\ upc = "verify"
    /\ upc' = "done"
    /\ uresult' = "success"
    /\ UNCHANGED <<rec, storage, dpc, ingestOk, dbUpload, metaUpload,
                   recordInserted, dstatus, fileList, deletes, statusLog>>
    /\ UNCHANGED notRecord

\* the catch block: update to status 'failed' (an error of the update is
\* not looked at), removal of the original file at storagePath (its error
\* neither), then the failure result
MarkFailed ==
    /\ upc = "catch"
    /\ \/ WriteStatus("failed")
       \/ UNCHANGED <<rec, statusLog>>
    /\ \E removed \in BOOLEAN :
          storage' = IF removed THEN storage \ {"original"} ELSE storage
    /\ upc' = "done"
    /\ uresult' = "failure"
    /\ UNCHANGED <<dpc, ingestOk, dbUpload, metaUpload, recordInserted,
                   dstatus, fileList, deletes>>
    /\ UNCHANGED notRecord

(* ---- the delete request: POST with {fileId} ---- *)

\* fileList after a listError
NullList == {"null"}

\* getFileRecord: 404 without a record
DeleteStart ==
    /\ upc = "done"
    /\ dpc \in {"idle", "done"}
    /\ deletes < MaxDeletes
    /\ deletes' = deletes + 1
    /\ fileList' = {}
    /\ IF rec = "missing"
       THEN dpc' = "done" /\ dstatus' = 404
       ELSE dpc' = "list" /\ dstatus' = 0
    /\ UNCHANGED <<rec, storage, upc, ingestOk, dbUpload, metaUpload,
                   recordInserted, uresult, statusLog>>
    /\ UNCHANGED notRecord

\* storage.list(folderPath): after a listError the request carries on with
\* no fileList
DeleteList ==
    /\ dpc = "list"
    /\ \E ok \in BOOLEAN : fileList' = IF ok THEN storage ELSE NullList
    /\ dpc' = "remove"
    /\ UNCHANGED <<rec, storage, upc, ingestOk, dbUpload, metaUpload,
                   recordInserted, uresult, dstatus, deletes, statusLog>>
    /\ UNCHANGED notRecord

\* if (fileList && fileList.length > 0) storage.remove(filePaths); a
\* deleteFilesError is thrown
DeleteRemove ==
    /\ dpc = "remove"
    /\ IF fileList # NullList /\ fileList # {}
       THEN \E ok \in BOOLEAN :
               IF ok THEN storage' = storage \ fileList /\ dpc' = "record"
               ELSE storage' = storage /\ dpc' = "catch"
       ELSE storage' = storage /\ dpc' = "record"
    /\ UNCHANGED <<rec, upc, ingestOk, dbUpload, metaUpload, recordInserted,
                   uresult, dstatus, fileList, deletes, statusLog>>
    /\ UNCHANGED notRecord

\* delete of the row: a deleteRecordError is thrown, else the success
\* response
DeleteRecord ==
    /\ dpc = "record"
    /\ \E ok \in BOOLEAN :
          IF ok THEN rec' = "missing" /\ dpc' = "done" /\ dstatus' = 200
          ELSE rec' = rec /\ dpc' = "catch" /\ dstatus' = dstatus
    /\ UNCHANGED <<storage, upc, ingestOk, dbUpload, metaUpload,
                   recordInserted, uresult, fileList, deletes, statusLog>>
    /\ UNCHANGED notRecord

\* the catch block: update to status 'deletion_failed' (an error of the
\* update is only logged), then the 500 response
DeleteCatch ==
    /\ dpc = "catch"
    /\ \/ WriteStatus("deletion_failed")
       \/ UNCHANGED <<rec, statusLog>>
    /\ dpc' = "done"
    /\ dstatus' = 500
    /\ UNCHANGED <<storage, upc, ingestOk, dbUpload, metaUpload,
                   recordInserted, uresult, fileList, deletes>>
    /\ UNCHANGED notRecord

RecordNext ==
    \/ StoreOriginal
    \/ InsertRecord
    \/ FetchOriginal
    \/ Ingest
    \/ UploadDatabaseFile
    \/ UploadMetadataFile
    \/ MarkCompleted
    \/ VerifyAndReturn
    \/ MarkFailed
    \/ DeleteStart
    \/ DeleteList
    \/ DeleteRemove
    \/ DeleteRecord
    \/ DeleteCatch

SpecRecord == RecordInit /\ [][RecordNext]_vars

-----------------------------------------------------------------------------
(* Claims about the FileRecord and the storage folder, under SpecRecord *)

RecordStatuses == {"created", "processing", "completed", "failed", "deletion_failed"}

\* the moves of the status the lifecycle allows
AllowedMove(from, to) ==
    \/ from = "missing" /\ to \in {"created", "processing"}
    \/ from = "created" /\ to = "processing"
    \/ from = "processing" /\ to \in {"completed", "failed"}
    \/ to = "deletion_failed" /\ dpc = "catch"

\* C16: every status written to the FileRecord is one of the five states,
\* and each write moves it along created -> processing -> completed | failed
\* or, from a failed delete, to deletion_failed; the upload action never
\* writes failed over completed.
C16_StatusLifecycle ==
    [][ /\ statusLog' # statusLog =>
              /\ rec' \in RecordStatuses
              /\ statusLog' = Append(statusLog, rec')
              /\ AllowedMove(rec, rec')
        /\ (rec = "completed" /\ rec' = "failed") => FALSE
        /\ rec' # rec => (statusLog' # statusLog \/ rec' = "missing")
      ]_vars

\* the record went processing -> completed -> deletion_failed
C16_Witness ==
    statusLog = <<"processing", "completed", "deletion_failed">>

\* C17: the record is completed only if processExcelFile returned a result
\* and both uploads succeeded; after an ingestion error it never is.
C17_CompletedOnlyAfterUploads ==
    /\ (\E k \in DOMAIN statusLog : statusLog[k] = "completed") =>
          /\ ingestOk
          /\ dbUpload = "success"
          /\ metaUpload = "success"
    /\ (upc \in {"catch", "done"} /\ recordInserted /\ ~ingestOk) =>
          \A k \in DOMAIN statusLog : statusLog[k] # "completed"

\* the upload ended with the record completed and all three objects stored
C17_Witness ==
    /\ upc = "done"
    /\ uresult = "success"
    /\ rec = "completed"
    /\ storage = FolderObjects

\* an upload failed because processExcelFile raised
C17_IngestionRaised ==
    /\ upc = "done" /\ recordInserted /\ ~ingestOk /\ rec = "failed"

\* the catch block of a failed upload did what it set out to do: the status
\* is failed and the original file is removed
CatchSucceeded == rec = "failed" /\ "original" \notin storage

\* C18: when an upload attempt has failed after its record was inserted, the
\* record is failed and nothing the attempt stored is left in storage
\* (stated for the attempts in which both calls of the catch block, the
\* status update and the removal, succeeded).
C18_FailedUploadCleansUp ==
    (/\ upc = "done" /\ uresult = "failure" /\ recordInserted /\ deletes = 0
     /\ CatchSucceeded) =>
        storage = {}

\* the record of a failed upload is failed whenever the update of the catch
\* block was applied
C18_FailedUploadMarked ==
    (upc = "done" /\ uresult = "failure" /\ recordInserted /\ deletes = 0) =>
        rec \in {"failed", "processing"}

\* C19: when a delete request has answered success, the storage folder is
\* empty and the record is gone.
C19_DeleteSuccessRemovesAll ==
    (dpc = "done" /\ dstatus = 200) =>
        /\ storage = {}
        /\ rec = "missing"

\* the part of C19 about the record row
C19_SuccessMeansRecordGone ==
    (dpc = "done" /\ dstatus = 200) => rec = "missing"

-----------------------------------------------------------------------------
(* validateDatabase: the stored database against an expected schema *)

ValTables == {"t1", "t2"}            \* table names of the inputs
ValColumns == {"c1", "c2"}           \* column names of the inputs
ValTypes == {"INTEGER", "VARCHAR"}   \* data types of the inputs

\* the functions from a subset of D to R
PartialFns(D, R) == UNION {[S -> R] : S \in SUBSET D}

\* expectedSchema.expectedTables: an array of distinct names
TableLists == {<<>>, <<"t1">>, <<"t2">>, <<"t1", "t2">>}

\* the ValidationSchema values of the inputs; a key of a table that is not
\* expected is never read (validator.ts:121, 144, 175) and is left out
Schemas ==
    {[expectedTables |-> ts, expectedColumns |-> ec, expectedDataTypes |-> ed] :
        ts \in TableLists,
        ec \in PartialFns(ValTables, SUBSET ValColumns),
        ed \in PartialFns(ValTables, PartialFns(ValColumns, ValTypes))}

\* a schema whose keys are those of its expected tables
WellKeyed(schema) ==
    /\ DOMAIN schema.expectedColumns = Range(schema.expectedTables)
    /\ DOMAIN schema.expectedDataTypes = Range(schema.expectedTables)

\* the databases of the inputs: table -> (column -> data type)
Databases == PartialFns(ValTables, PartialFns(ValColumns, ValTypes))

\* one entry of result.errors or result.warnings
Entry(type, table, column) == [type |-> type, table |-> table, column |-> column]

\* actualTableNames (validator.ts:80-87)
actualTableNames == DOMAIN actualDb

\* the entries pushed by the loop over expectedTables (validator.ts:93-106)
missingTables ==
    {Entry("missing_table", t, "") :
        t \in Range(expectedSchema.expectedTables) \ actualTableNames}

\* the entries pushed by the loop over actualTableNames (validator.ts:109-118)
extraTables ==
    {Entry("extra_table", t, "") :
        t \in actualTableNames \ Range(expectedSchema.expectedTables)}

\* actualColumnMap of a table (validator.ts:127-138)
actualColumnMap(t) == actualDb[t]

\* expectedSchema.expectedColumns[tableName] || [] (validator.ts:144)
expectedColumnsOf(t) ==
    IF t \in DOMAIN expectedSchema.expectedColumns
    THEN expectedSchema.expectedColumns[t] ELSE {}

\* expectedSchema.expectedDataTypes[tableName] || {} (validator.ts:175)
expectedDataTypesOf(t) ==
    IF t \in DOMAIN expectedSchema.expectedDataTypes
    THEN expectedSchema.expectedDataTypes[t] ELSE <<>>

\* validator.ts:145-159
missingColumns(t) ==
    {Entry("missing_column", t, c) :
        c \in expectedColumnsOf(t) \ DOMAIN actualColumnMap(t)}

\* validator.ts:162-172
extraColumns(t) ==
    {Entry("extra_column", t, c) :
        c \in DOMAIN actualColumnMap(t) \ expectedColumnsOf(t)}

\* validator.ts:178-197: a column that is not in the table is skipped
wrongDataTypes(t) ==
    {Entry("wrong_data_type", t, c) :
        c \in {k \in DOMAIN expectedDataTypesOf(t) :
                  /\ k \in DOMAIN actualColumnMap(t)
                  /\ actualColumnMap(t)[k] # expectedDataTypesOf(t)[k]}}

ValidateInit ==
    /\ expectedSchema \in {x \in Schemas : WellKeyed(x)}
    /\ actualDb \in Databases
    /\ vpc = "attach"
    /\ tableIdx = 0
    /\ result = [success |-> TRUE, errors |-> {}, warnings |-> {}]
    /\ IngestIdle
    /\ GuardIdle
    /\ QueryIdle
    /\ StreamIdle
    /\ FilesIdle
    /\ RecordIdle
    /\ ColumnsIdle
    /\ CleanupIdle

\* the database is downloaded and attached (validator.ts:62-77)
AttachSource ==
    /\ vpc = "attach"
    /\ vpc' = "tables"
    /\ UNCHANGED <<expectedSchema, actualDb, tableIdx, result>>
    /\ UNCHANGED notValidate

\* (mutant) a table that is not expected fails the validation
ValidateTables_ExtraFails ==
    /\ vpc = "tables"
    /\ result' = [success |-> result.success /\ missingTables = {}
                                 /\ extraTables = {},
                  errors |-> result.errors \cup missingTables,
                  warnings |-> result.warnings \cup extraTables]
    /\ vpc' = "columns"
    /\ tableIdx' = 1
    /\ UNCHANGED <<expectedSchema, actualDb>>
    /\ UNCHANGED notValidate

\* the tables are listed and compared with expectedTables (validator.ts:79-118)
ValidateTables ==
    /\ vpc = "tables"
    /\ result' = [success |-> result.success /\ missingTables = {},
                  errors |-> result.errors \cup missingTables,
                  warnings |-> result.warnings \cup extraTables]
    /\ vpc' = "columns"
    /\ tableIdx' = 1
    /\ UNCHANGED <<expectedSchema, actualDb>>
    /\ UNCHANGED notValidate

\* one turn of the loop over expectedTables (validator.ts:121-198)
ValidateColumns ==
    /\ vpc = "columns"
    /\ tableIdx <= Len(expectedSchema.expectedTables)
    /\ LET tableName == expectedSchema.expectedTables[tableIdx]
       IN  IF tableName \notin actualTableNames
           THEN UNCHANGED result
           ELSE result' =
                    [success |-> /\ result.success
                                 /\ missingColumns(tableName) = {}
                                 /\ wrongDataTypes(tableName) = {},
                     errors |-> result.errors \cup missingColumns(tableName)
                                    \cup wrongDataTypes(tableName),
                     warnings |-> result.warnings \cup extraColumns(tableName)]
    /\ tableIdx' = tableIdx + 1
    /\ UNCHANGED <<expectedSchema, actualDb, vpc>>
    /\ UNCHANGED notValidate

\* the loop is over and the result is returned (validator.ts:200-214, 225)
ValidateReturn ==
    /\ vpc = "columns"
    /\ tableIdx > Len(expectedSchema.expectedTables)
    /\ vpc' = "done"
    /\ UNCHANGED <<expectedSchema, actualDb, tableIdx, result>>
    /\ UNCHANGED notValidate

\* the download, the ATTACH or a query raises (validator.ts:216-225)
ValidateCatch ==
    /\ \/ vpc \in {"attach", "tables"}
       \/ /\ vpc = "columns"
          /\ tableIdx <= Len(expectedSchema.expectedTables)
          /\ expectedSchema.expectedTables[tableIdx] \in actualTableNames
    /\ result' = [success |-> FALSE,
                  errors |-> result.errors \cup {Entry("database_error", "", "")},
                  warnings |-> result.warnings]
    /\ vpc' = "done"
    /\ UNCHANGED <<expectedSchema, actualDb, tableIdx>>
    /\ UNCHANGED notValidate

ValidateNext ==
    \/ AttachSource
    \/ ValidateTables
    \/ ValidateColumns
    \/ ValidateReturn
    \/ ValidateCatch

SpecValidate == ValidateInit /\ [][ValidateNext]_vars

\* the call ended in its catch block
DatabaseError == Entry("database_error", "", "") \in result.errors

\* an expected table, an expected column of a table of the database or the
\* expected type of a column of the database is not what the database has
Discrepancy ==
    \E t \in Range(expectedSchema.expectedTables) :
        \/ t \notin DOMAIN actualDb
        \/ /\ t \in DOMAIN actualDb
           /\ \/ \E c \in expectedColumnsOf(t) : c \notin DOMAIN actualDb[t]
              \/ \E c \in DOMAIN expectedDataTypesOf(t) \cap DOMAIN actualDb[t] :
                     actualDb[t][c] # expectedDataTypesOf(t)[c]

\* the tables, and the columns of expected tables, that are in the database
\* and not expected
Unexpected ==
    {Entry("extra_table", t, "") :
        t \in DOMAIN actualDb \ Range(expectedSchema.expectedTables)}
    \cup UNION {{Entry("extra_column", t, c) :
                    c \in DOMAIN actualDb[t] \ expectedColumnsOf(t)} :
                t \in DOMAIN actualDb \cap Range(expectedSchema.expectedTables)}

\* C20: success is false exactly when an error is recorded: a returned result
\* is a failure exactly when the database lacks an expected table or column,
\* has a column of another type than expected, or a database error was caught;
\* what the database has beyond the expected is a warning and nothing else
C20_SuccessIffError ==
    /\ result.success = (result.errors = {})
    /\ \A e \in result.errors :
           e.type \in {"missing_table", "missing_column", "wrong_data_type",
                       "database_error"}
    /\ \A w \in result.warnings : w.type \in {"extra_table", "extra_column"}
    /\ vpc = "done" =>
           /\ result.success = (~DatabaseError /\ ~Discrepancy)
           /\ ~DatabaseError => result.warnings = Unexpected

\* a returned success with a warning for a table and for a column
C20_Witness ==
    /\ vpc = "done"
    /\ result.success
    /\ \E w \in result.warnings : w.type = "extra_table"
    /\ \E w \in result.warnings : w.type = "extra_column"

\* a returned failure whose only error is a missing table
C20_MissingTableFails ==
    /\ vpc = "done"
    /\ ~result.success
    /\ result.errors # {}
    /\ \A e \in result.errors : e.type = "missing_table"

-----------------------------------------------------------------------------
(* sanitizeColumnName *)

ColPrefix == <<"c","o","l","_">>

\* (mutant) the digit test looks at the header, not at the slug
sanitizeColumnName_TestsHeader(columnName) ==
    LET slug == slugify(columnName)
    IN  IF columnName # <<>> /\ columnName[1] \in DigitChars
        THEN ColPrefix \o slug
        ELSE slug

\* schema.ts sanitizeColumnName: the slug, with col_ before a leading digit
sanitizeColumnName(columnName) ==
    LET slug == slugify(columnName)
    IN  IF slug # <<>> /\ slug[1] \in DigitChars
        THEN ColPrefix \o slug
        ELSE slug

\* the characters of the headers: letters of both cases, a digit, the space,
\* the separator and punctuation with and without an entry in charMap
HeaderChars == {"a", "B", "1", " ", "_", "$", "%", "!"}

HeaderInputs == UNION {[1..n -> HeaderChars] : n \in 0..MaxHeaderLen}

SanitizeInit ==
    /\ header \in HeaderInputs
    /\ sanitized = <<>>
    /\ again = <<>>
    /\ resanitized = <<>>
    /\ hpc = "first"
    /\ SheetIdle
    /\ IngestIdle
    /\ GuardIdle
    /\ QueryIdle
    /\ StreamIdle
    /\ FilesIdle
    /\ RecordIdle
    /\ ValidateIdle
    /\ CleanupIdle

\* sanitizeColumnName(header)
SanitizeHeader ==
    /\ hpc = "first"
    /\ sanitized' = sanitizeColumnName(header)
    /\ hpc' = "second"
    /\ UNCHANGED <<header, again, resanitized>>
    /\ UNCHANGED <<originalCols, nrows, colMapping, cols, tableCols, tableRows, cpc>>
    /\ UNCHANGED notColumns

\* sanitizeColumnName(header) once more
SanitizeHeaderAgain ==
    /\ hpc = "second"
    /\ again' = sanitizeColumnName(header)
    /\ hpc' = "nested"
    /\ UNCHANGED <<header, sanitized, resanitized>>
    /\ UNCHANGED <<originalCols, nrows, colMapping, cols, tableCols, tableRows, cpc>>
    /\ UNCHANGED notColumns

\* sanitizeColumnName(sanitizeColumnName(header))
SanitizeSanitized ==
    /\ hpc = "nested"
    /\ resanitized' = sanitizeColumnName(sanitized)
    /\ hpc' = "done"
    /\ UNCHANGED <<header, sanitized, again>>
    /\ UNCHANGED <<originalCols, nrows, colMapping, cols, tableCols, tableRows, cpc>>
    /\ UNCHANGED notColumns

SanitizeNext ==
    \/ SanitizeHeader
    \/ SanitizeHeaderAgain
    \/ SanitizeSanitized

SpecSanitize == SanitizeInit /\ [][SanitizeNext]_vars

LowerLetters == Range(LowerSeq)

\* the string matches ^[a-z_][a-z0-9_]*$
IsIdentifier(s) ==
    /\ s # <<>>
    /\ s[1] \in LowerLetters \cup {"_"}
    /\ \A k \in DOMAIN s : s[k] \in LowerLetters \cup DigitChars \cup {"_"}

\* C23: two calls on a header give the same string, and a call on the result
\* gives the result back.
C23_SanitizeIdempotent ==
    /\ hpc \in {"nested", "done"} => again = sanitized
    /\ hpc = "done" => resanitized = sanitized

\* a header with a leading digit after a space, a separator and punctuation
\* went through the three calls
C23_Witness ==
    /\ hpc = "done"
    /\ header = <<" ", "1", "_">>
    /\ sanitized = <<"c","o","l","_","1">>

\* C24: for a non-empty header the result is non-empty and matches
\* ^[a-z_][a-z0-9_]*$.
C24_NonEmptyIdentifier ==
    (hpc # "first" /\ header # <<>>) => IsIdentifier(sanitized)

\* a result that is not empty matches ^[a-z_][a-z0-9_]*$
C24_ResultIsIdentifierOrEmpty ==
    (hpc # "first" /\ sanitized # <<>>) => IsIdentifier(sanitized)

-----------------------------------------------------------------------------
(* processExcelFile: the columns and rows of one non-empty sheet *)

HName == <<"N","a","m","e">>
HRevenue == <<"2","0","2","4"," ","R","e","v","e","n","u","e">>
HSpaced == <<"a"," ","b">>
HJoined == <<"a","_","b">>
\* the keys sheet_to_json gives to columns without a header
EmptyMarker == <<"_","_","E","M","P","T","Y">>
HEmpty1 == EmptyMarker \o <<"_","1">>

SheetHeaders == {HName, HRevenue, HSpaced, HJoined, EmptyMarker, HEmpty1}

\* the keys of the first row: each header once
HeaderRows ==
    { oc \in UNION {[1..n -> SheetHeaders] : n \in 1..MaxCols} :
        \A p, q \in DOMAIN oc : p # q => oc[p] # oc[q] }

\* defval: null
Null == <<"null">>

DigitSeq == <<"0","1","2","3","4","5","6","7","8","9">>

\* the cell of row r under the k-th header: null or a text with a space before
Cell(r, k) ==
    IF (r + k) % 3 = 0 THEN Null
    ELSE <<" ", "r", DigitSeq[r + 1], "c", DigitSeq[k + 1]>>

\* value === null || value === undefined ? '' : String(value).trim()
storedValue(value) == IF value = Null THEN <<>> ELSE trim(value)

\* row[originalCol] of row r
rowValue(r, originalCol) ==
    Cell(r, CHOOSE k \in DOMAIN originalCols : originalCols[k] = originalCol)

\* (mutant) the placeholder keys are kept
keptCols_All(oc) == oc

\* originalCols.filter(col => col && !col.startsWith('__EMPTY'))
keptCols(oc) ==
    SelectSeq(oc, LAMBDA col : col # <<>> /\ ~startsWith(col, EmptyMarker))

\* (mutant) a key that is in the object keeps its first value
putEntry_FirstWins(m, k, v) ==
    IF k \in Range(m.keys) THEN m
    ELSE [keys |-> Append(m.keys, k),
          val |-> [x \in DOMAIN m.val \cup {k} |-> IF x = k THEN v ELSE m.val[x]]]

\* one entry put into the object: a new key goes last, a key that is in the
\* object keeps its place and takes the new value
putEntry(m, k, v) ==
    [keys |-> IF k \in Range(m.keys) THEN m.keys ELSE Append(m.keys, k),
     val |-> [x \in DOMAIN m.val \cup {k} |-> IF x = k THEN v ELSE m.val[x]]]

\* Object.fromEntries(kept.map(col => [sanitizeColumnName(String(col)), col]))
RECURSIVE fromEntries(_, _)
fromEntries(m, kept) ==
    IF kept = <<>> THEN m
    ELSE fromEntries(putEntry(m, sanitizeColumnName(Head(kept)), Head(kept)),
                     Tail(kept))

ColumnsInit ==
    /\ originalCols \in HeaderRows
    /\ nrows \in 1..MaxRows
    /\ colMapping = <<>>
    /\ cols = <<>>
    /\ tableCols = <<>>
    /\ tableRows = <<>>
    /\ cpc = "map"
    /\ HeaderIdle
    /\ IngestIdle
    /\ GuardIdle
    /\ QueryIdle
    /\ StreamIdle
    /\ FilesIdle
    /\ RecordIdle
    /\ ValidateIdle
    /\ CleanupIdle

\* colMapping and cols are computed (database.ts:192-211)
BuildColMapping ==
    /\ cpc = "map"
    /\ LET m == fromEntries([keys |-> <<>>, val |-> <<>>], keptCols(originalCols))
       IN  /\ colMapping' = m.val
           /\ cols' = m.keys
    /\ cpc' = "create"
    /\ UNCHANGED <<originalCols, nrows, tableCols, tableRows>>
    /\ UNCHANGED <<header, sanitized, again, resanitized, hpc>>
    /\ UNCHANGED notColumns

\* DROP TABLE IF EXISTS, CREATE TABLE tbl ("c" TEXT, ...), prepare the INSERT
\* (database.ts:213-219); the database refuses a table without columns
CreateSheetTable ==
    /\ cpc = "create"
    /\ IF cols = <<>>
       THEN /\ cpc' = "thrown"
            /\ UNCHANGED tableCols
       ELSE /\ tableCols' = [k \in DOMAIN cols |-> [name |-> cols[k], type |-> "TEXT"]]
            /\ cpc' = "insert"
    /\ UNCHANGED <<originalCols, nrows, colMapping, cols, tableRows>>
    /\ UNCHANGED <<header, sanitized, again, resanitized, hpc>>
    /\ UNCHANGED notColumns

\* one turn of the row loop (database.ts:233-245)
InsertSheetRow ==
    /\ cpc = "insert"
    /\ Len(tableRows) < nrows
    /\ LET r == Len(tableRows) + 1
           values == [k \in DOMAIN cols |-> storedValue(rowValue(r, colMapping[cols[k]]))]
       IN  tableRows' = Append(tableRows, values)
    /\ UNCHANGED <<originalCols, nrows, colMapping, cols, tableCols, cpc>>
    /\ UNCHANGED <<header, sanitized, again, resanitized, hpc>>
    /\ UNCHANGED notColumns

\* the rows are counted and the loop goes on (database.ts:247-258)
FinishSheet ==
    /\ cpc = "insert"
    /\ Len(tableRows) = nrows
    /\ cpc' = "done"
    /\ UNCHANGED <<originalCols, nrows, colMapping, cols, tableCols, tableRows>>
    /\ UNCHANGED <<header, sanitized, again, resanitized, hpc>>
    /\ UNCHANGED notColumns

ColumnsNext ==
    \/ BuildColMapping
    \/ CreateSheetTable
    \/ InsertSheetRow
    \/ FinishSheet

SpecColumns == ColumnsInit /\ [][ColumnsNext]_vars

\* the headers that do not start with the placeholder marker, in key order
NamedHeaders ==
    SelectSeq(originalCols, LAMBDA h : ~startsWith(h, EmptyMarker))

TableCreated == cpc \in {"insert", "done"}

DistinctSanitized ==
    \A p, q \in DOMAIN NamedHeaders :
        p # q => sanitizeColumnName(NamedHeaders[p]) # sanitizeColumnName(NamedHeaders[q])

\* C22: when the named headers of a sheet sanitize to distinct names, the
\* table is created with one TEXT column per named header, named by the
\* sanitized header, in the order of the first row's keys; the headers that
\* start with the placeholder marker give no column. Name, 2024 Revenue give
\* name, col_2024_revenue.
C22_ColumnsFromFirstRow ==
    DistinctSanitized =>
        /\ NamedHeaders # <<>> => cpc # "thrown"
        /\ TableCreated =>
              /\ tableCols = [k \in DOMAIN NamedHeaders |->
                                 [name |-> sanitizeColumnName(NamedHeaders[k]),
                                  type |-> "TEXT"]]
              /\ originalCols = <<HName, HRevenue>> =>
                     tableCols =
                         << [name |-> <<"n","a","m","e">>, type |-> "TEXT"],
                            [name |-> <<"c","o","l","_","2","0","2","4","_",
                                        "r","e","v","e","n","u","e">>,
                             type |-> "TEXT"] >>

\* the table of a sheet with the headers Name and 2024 Revenue is filled
C22_Witness ==
    /\ cpc = "done"
    /\ originalCols = <<HName, HRevenue>>
    /\ Len(tableRows) = 2

\* a sheet with a placeholder key before a named header got its table
C22_PlaceholderLeftOut ==
    /\ cpc = "done"
    /\ originalCols = <<HEmpty1, HName>>
    /\ Len(tableCols) = 1

\* the p-th and the q-th header are named, sanitize to one name, and no later
\* header sanitizes to it
Collide(p, q) ==
    /\ p < q
    /\ ~startsWith(originalCols[p], EmptyMarker)
    /\ ~startsWith(originalCols[q], EmptyMarker)
    /\ sanitizeColumnName(originalCols[p]) = sanitizeColumnName(originalCols[q])
    /\ \A r \in DOMAIN originalCols :
           (r > q /\ ~startsWith(originalCols[r], EmptyMarker)) =>
               sanitizeColumnName(originalCols[r]) # sanitizeColumnName(originalCols[q])

\* C26: when two headers of a sheet sanitize to one name, the sheet's turn
\* does not fail; the table has one column of that name, the column map
\* points it to the later header, every row stores in it the value under the
\* later header, and no column is mapped to the earlier header.
C26_LaterHeaderWins ==
    \A p, q \in DOMAIN originalCols :
        Collide(p, q) =>
            /\ cpc # "thrown"
            /\ TableCreated =>
                  /\ Cardinality({k \in DOMAIN tableCols :
                        tableCols[k].name = sanitizeColumnName(originalCols[q])}) = 1
                  /\ colMapping[sanitizeColumnName(originalCols[q])] = originalCols[q]
                  /\ originalCols[p] \notin Range(colMapping)
                  /\ \A r \in DOMAIN tableRows :
                        /\ Len(tableRows[r]) = Len(tableCols)
                        /\ \A k \in DOMAIN tableCols :
                              tableCols[k].name = sanitizeColumnName(originalCols[q]) =>
                                  tableRows[r][k] = storedValue(Cell(r, q))
            /\ cpc = "done" => Len(tableRows) = nrows

\* a sheet of two rows with the headers "a b" and "a_b" is done, and the
\* first row's value under "a b" is not in the table
C26_Witness ==
    /\ cpc = "done"
    /\ originalCols = <<HSpaced, HJoined>>
    /\ nrows = 2
    /\ \A k \in DOMAIN tableRows[1] : tableRows[1][k] # storedValue(Cell(1, 1))

-----------------------------------------------------------------------------
(* The cleanup at the end of the chat, direct query and upload requests *)

RequestKinds == {"chat", "direct", "upload"}

\* the calls of a cleanup that can raise
CleanupCalls == {"disconnect", "unlink"}

\* fs.unlink(filePath)
unlink(present) ==
    IF present /\ "unlink" \in failing THEN "raised" ELSE "returned"

\* connection.disconnectSync()
disconnectSync ==
    IF "disconnect" \in failing THEN "raised" ELSE "returned"

\* try { ... } catch (e) { log }: the error is logged and the block returns
Caught(outcome) == IF outcome = "raised" THEN "returned" ELSE outcome

\* (mutant) an unlink error leaves the function
cleanupTempFiles_Uncaught(present) == unlink(present)

\* storage.ts cleanupTempFiles: each unlink sits in its own try/catch
cleanupTempFiles(present) == Caught(unlink(present))

\* DatabaseManager.cleanup: the disconnect sits in a try/catch inside the
\* try/catch of the method; the instance has no close call
DatabaseManagerCleanup ==
    Caught(IF hasConnection THEN Caught(disconnectSync) ELSE "returned")

\* FileManager.cleanup: cleanupTempFiles inside a try/catch
FileManagerCleanup ==
    IF hasPath THEN Caught(cleanupTempFiles(TRUE)) ELSE "returned"

\* the answer the body of the request had made
PrimaryResponse(kind, how) ==
    CASE kind = "chat" /\ how = "success" -> "200 stream"
      [] kind = "chat" /\ how = "failure" -> "500"
      [] kind = "direct" /\ how = "success" -> "200 rows"
      [] kind = "direct" /\ how = "failure" -> "error response"
      [] kind = "upload" /\ how = "success" -> "success: true"
      [] kind = "upload" /\ how = "failure" -> "Failed to process upload"
      [] OTHER -> "none"

CleanupInit ==
    /\ ckind \in RequestKinds
    /\ primary \in {"success", "failure"}
    /\ failing \in SUBSET CleanupCalls
    /\ hasConnection \in BOOLEAN
    /\ hasPath \in BOOLEAN
    /\ primary = "success" => (hasConnection /\ hasPath)
    /\ kpc = "cleanup"
    /\ cleanupRaised = FALSE
    /\ response = "none"
    /\ IngestIdle
    /\ GuardIdle
    /\ QueryIdle
    /\ StreamIdle
    /\ FilesIdle
    /\ RecordIdle
    /\ ValidateIdle
    /\ ColumnsIdle

\* chat POST: return or catch has made the response; finally runs
\* dbManager.cleanup() and fileManager.cleanup(localDbPath), neither inside a
\* try/catch of its own (part_007:190-193)
ChatFinally ==
    /\ kpc = "cleanup"
    /\ ckind = "chat"
    /\ IF DatabaseManagerCleanup = "raised" \/ FileManagerCleanup = "raised"
       THEN /\ cleanupRaised' = TRUE
            /\ response' = "raised"
       ELSE /\ cleanupRaised' = cleanupRaised
            /\ response' = PrimaryResponse(ckind, primary)
    /\ kpc' = "done"
    /\ UNCHANGED <<ckind, primary, failing, hasConnection, hasPath>>
    /\ UNCHANGED notCleanup

\* direct POST: finally { try { disconnect in a try/catch; cleanupTempFiles }
\* catch { log } } (route.ts:308-331)
DirectFinally ==
    /\ kpc = "cleanup"
    /\ ckind = "direct"
    /\ LET closing == IF hasConnection THEN Caught(disconnectSync) ELSE "returned"
           files == IF hasPath THEN cleanupTempFiles(TRUE) ELSE "returned"
       IN  /\ cleanupRaised' = (files = "raised")
           /\ response' = IF Caught(IF closing = "raised" THEN closing ELSE files) = "raised"
                          THEN "raised"
                          ELSE PrimaryResponse(ckind, primary)
    /\ kpc' = "done"
    /\ UNCHANGED <<ckind, primary, failing, hasConnection, hasPath>>
    /\ UNCHANGED notCleanup

\* uploadFileAction after verifyDatabase: cleanupTempFiles inside the try
\* whose catch answers with a failure (part_002:317-330)
UploadSuccessCleanup ==
    /\ kpc = "cleanup"
    /\ ckind = "upload"
    /\ primary = "success"
    /\ IF cleanupTempFiles(TRUE) = "raised"
       THEN /\ cleanupRaised' = TRUE
            /\ kpc' = "catch"
            /\ response' = response
       ELSE /\ cleanupRaised' = cleanupRaised
            /\ kpc' = "done"
            /\ response' = PrimaryResponse(ckind, "success")
    /\ UNCHANGED <<ckind, primary, failing, hasConnection, hasPath>>
    /\ UNCHANGED notCleanup

\* the catch block of uploadFileAction: cleanupTempFiles(localFilePath) when
\* the path is set, then the failure answer; an error raised here goes to the
\* outer catch (part_002:332-372)
UploadCatchCleanup ==
    /\ \/ kpc = "cleanup" /\ ckind = "upload" /\ primary = "failure"
       \/ kpc = "catch"
    /\ IF hasPath /\ cleanupTempFiles(TRUE) = "raised"
       THEN /\ cleanupRaised' = TRUE
            /\ response' = "Internal server error"
       ELSE /\ cleanupRaised' = cleanupRaised
            /\ response' = PrimaryResponse(ckind, "failure")
    /\ kpc' = "done"
    /\ UNCHANGED <<ckind, primary, failing, hasConnection, hasPath>>
    /\ UNCHANGED notCleanup

CleanupNext ==
    \/ ChatFinally
    \/ DirectFinally
    \/ UploadSuccessCleanup
    \/ UploadCatchCleanup

SpecCleanup == CleanupInit /\ [][CleanupNext]_vars

\* C27: whichever cleanup calls raise, the request answers what its body had
\* made, and neither cleanupTempFiles nor DatabaseManager.cleanup raises.
C27_CleanupNeverChangesOutcome ==
    /\ ~cleanupRaised
    /\ kpc # "catch"
    /\ kpc = "done" => response = PrimaryResponse(ckind, primary)

\* an upload whose body succeeded answered while every cleanup call raised
C27_Witness ==
    /\ kpc = "done"
    /\ ckind = "upload"
    /\ primary = "success"
    /\ failing = CleanupCalls
    /\ response = "success: true"

-----------------------------------------------------------------------------
(* The file record check of the query entry points, checked under SpecQuery *)

\* C29: a chat or direct request for a workbook whose record is missing or
\* not completed asks for no download, generates no statement and executes
\* none; it never gets past the record check, and it ends with 404 or 400.
C29_OnlyCompletedQueried ==
    (qentry \in {"chat", "direct"} /\ fileRecord # "completed") =>
        /\ fetched = {}
        /\ executed = <<>>
        /\ llmCalls = 0
        /\ generated = <<>>
        /\ qpc \in {"start", "record", "done"}
        /\ qpc = "done" => status \in {400, 404}

\* a direct request with a statement the guard lets through ended 400 on a
\* record that is in deletion_failed
C29_Witness ==
    /\ qentry = "direct"
    /\ qpc = "done"
    /\ fileRecord = "deletion_failed"
    /\ stmt # <<>> /\ ~guardRejected
    /\ status = 400
    /\ fetched = {}

\* a chat request for a missing record ended 404
C29_MissingAnswered404 ==
    /\ qentry = "chat"
    /\ qpc = "done"
    /\ fileRecord = "missing"
    /\ status = 404

=============================================================================
